---- MODULE Spec2Model ----
(***************************************************************************)
(* A state-machine model of the lowering passes of numba-mlir:             *)
(*   - ForceInlinePass            (mlir/lib/Transforms/InlineUtils.cpp)    *)
(*   - the cast helpers           (mlir/lib/Transforms/CastUtils.cpp)      *)
(*   - the plier-to-std patterns  (.../pipelines/PlierToStd.cpp)           *)
(*   - InsertGPUAllocs            (mlir/lib/Conversion/GpuToGpuRuntime.cpp)*)
(* SSA values are modelled as expression trees of the ops that produce     *)
(* them; integer values are bit sets (the set of positions holding a 1).   *)
(***************************************************************************)
EXTENDS Integers, Sequences, FiniteSets, TLC

VARIABLES
  \* ---- plier-to-std: the op handed to a conversion pattern, and the outcome
  plierOp,     \* the plier.binop / plier.unary under conversion (or NoOp)
  operandVals, \* run-time values of its operands (bit sets), <<>> if not tracked
  lowered,     \* outcome of the pattern: status and replacement value
  \* ---- ForceInlinePass
  body,        \* function name -> sequence of the func.call ops in its body
  funcAttr,    \* function name -> does the func.func bear the force-inline attr
  inlPc,       \* "idle" | "rewrite" | "inlineCall" | "walk" | "done"
  rewrites,    \* number of successful ForceInline rewrites so far
  walked,      \* calls already visited by the final walk: set of <<func, index>>
  diags,       \* calls on which emitError was called: set of <<func, index>>
  passFailed,  \* signalPassFailure() was called
  \* ---- InsertGPUAllocs
  gpuFunc,     \* the function under the pass: its gpu-accessible attr and its ops
  gpuOrig,     \* the function as it was when the pass started
  gpuPc,       \* "idle" | "collect" | "access" | "insert" | "done"
  gpuBufferAllocs, \* producer ops (alloc / get_global) -> AccessType, in order
  gpuBufferParams, \* parameter indices -> AccessType, in order
  gpuFailed,   \* signalPassFailure() was called
  gpuDiags,    \* errors emitted by the pass
  \* ---- TileParallelLoopsForGPUPass / ParallelLoopGPUMappingPass
  tileFunc,    \* the ops of the function under the passes (a tree)
  tileOrig,    \* the function as it was before the passes
  tilePc,      \* "idle" | "tile" | "map" | "mapped" | "ran"
  tileLocal,   \* block sizes returned at run time by the suggest call
  tileRuns,    \* executions of the loop body: set of <<point, indices>>
  \* ---- GPUExPass
  exFunc,      \* the function under the pass: single-block flag and its ops
  exPc,        \* "idle" | "expand" | "done"
  \* ---- UnstrideMemrefsPass
  flatOps,     \* the ops of the function under the pass, in program order
  flatPc,      \* "idle" | "run" | "done"
  flatRun,     \* 1 in the first run of the pass, 2 in the second
  flatFirst,   \* the ops as the first run left them
  \* ---- the SPIR-V conversion patterns of loads, stores and reduce ops
  spvOp,       \* the load, store or reduce op under conversion
  spvOut,      \* outcome of the pattern: success and the ops that replace it
  \* ---- GPUToSpirvPass / TruncateF64ForGPUPass / SerializeSPIRVPass
  modIR,       \* the module: its kernel modules and the modules beside them
  modOrig,     \* the module as it was when the pass started
  modRun,      \* the pass, its position, and whether it signalled failure
  \* ---- populatePlierToStdPipeline: ForceInlinePass, then SymbolDCEPass
  symbols,    \* the func.func ops in the module's symbol table
  visibility, \* function name -> "public" | "private"
  bodyOrig,   \* the function bodies as they were before ForceInlinePass
  \* ---- BuiltinCallsLoweringPass: the resolution of a plier.call
  resMod,     \* the module: the call, its functions, its jump markers, the ops created
  resOrig,    \* the module as it was before the pass
  resOut,     \* outcome of the last resolveCall: status, handler, replacement values
  resTried,   \* the patterns the driver has tried on the call
  \* ---- f64Tof32 on one value
  fpSrc,      \* the 64-bit pattern of the f64 value: the positions of its 1 bits
  fpRes,      \* the 32-bit pattern of the f32 value, once computed
  \* ---- TruncateF64ForGPUPass: signatures and launches
  truncIR,    \* the gpu modules and the ops of the host code that refer to their kernels
  truncOrig,  \* the same as they were when the pass started
  truncRun,   \* position of the pass in its loop, and whether it signalled failure
  \* ---- PlierToStdPass run twice on a module
  stdIR,      \* the module under the pass: the tree of its ops
  stdFirst,   \* the module as the first run of the pass left it
  stdRun,     \* the runs of the pass so far, and whether the last one signalled failure
  \* ---- runUnderDiag: verification, then the pass pipeline
  cfIn,       \* the call: does the module verify, and what each pass of the pipeline does
  cfPc,       \* "idle" | "verify" | "run" | "done"
  cfErr,      \* the error text: the diagnostics the handler wrote to errStream
  cfModule,   \* the module: the number of passes that have changed it
  cfOut,      \* the result returned, whether pm.run was called, and what was dumped
  \* ---- printArgList, then parseArgList on the text
  argIn,      \* the argument list of the op: its operands and their names
  argText,    \* the text printArgList wrote, empty before
  argOut,     \* what parseArgList made of the text
  \* ---- getFlatIndex evaluated on a memref and indices
  fiIn,       \* the memref type's shape with the run-time sizes, and the indices
  fiOut,      \* the value of the flat index, once computed
  \* ---- numba::doConvert on one value
  castIn,     \* the value handed to doConvert and the destination type
  castOut     \* what canConvert and doConvert returned

plierVars == <<plierOp, operandVals, lowered>>
inlVars == <<body, funcAttr, inlPc, rewrites, walked, diags, passFailed>>
gpuVars == <<gpuFunc, gpuOrig, gpuPc, gpuBufferAllocs, gpuBufferParams, gpuFailed, gpuDiags>>
tileVars == <<tileFunc, tileOrig, tilePc, tileLocal, tileRuns>>
\* the variables of the passes that follow InsertGPUAllocs in this module
exVars == <<exFunc, exPc>>
flatVars == <<flatOps, flatPc, flatRun, flatFirst>>
spvVars == <<spvOp, spvOut>>
modVars == <<modIR, modOrig, modRun>>
dceVars == <<symbols, visibility, bodyOrig>>
resVars == <<resMod, resOrig, resOut, resTried>>
fpVars == <<fpSrc, fpRes>>
truncVars == <<truncIR, truncOrig, truncRun>>
stdVars == <<stdIR, stdFirst, stdRun>>
cfVars == <<cfIn, cfPc, cfErr, cfModule, cfOut>>
argVars == <<argIn, argText, argOut>>
fiVars == <<fiIn, fiOut>>
castVars == <<castIn, castOut>>
otherVars == <<tileVars, exVars, flatVars, spvVars, modVars, dceVars, resVars, fpVars, truncVars, stdVars, cfVars, argVars, fiVars, castVars>>
vars == <<plierVars, inlVars, gpuVars, otherVars>>

(***************************************************************************)
(* Types: integer(width, signedness), float(width), complex(element float  *)
(* width), index, tuple(element types).                                    *)
(***************************************************************************)
IntegerType(w, s) == [kind |-> "int", width |-> w, sign |-> s, elems |-> <<>>]
FloatType(w) == [kind |-> "float", width |-> w, sign |-> "none", elems |-> <<>>]
ComplexType(w) == [kind |-> "complex", width |-> w, sign |-> "none", elems |-> <<>>]
IndexType == [kind |-> "index", width |-> 0, sign |-> "none", elems |-> <<>>]
TupleType(ts) == [kind |-> "tuple", width |-> 0, sign |-> "none", elems |-> ts]
\* the type of the null mlir::Value
NullType == [kind |-> "null", width |-> 0, sign |-> "none", elems |-> <<>>]

Signedness == {"signed", "unsigned", "signless"}
IntWidths == {1, 8, 16, 32, 64}
FloatWidths == {16, 32, 64}
ComplexWidths == {32, 64}
IntTypes == {IntegerType(w, s) : w \in IntWidths, s \in Signedness}
FloatTypes == {FloatType(w) : w \in FloatWidths}
ComplexTypes == {ComplexType(w) : w \in ComplexWidths}
NumTypes == IntTypes \cup FloatTypes \cup ComplexTypes

isSigned(t) == t.kind = "int" /\ t.sign = "signed"
isSignless(t) == t.kind = "int" /\ t.sign = "signless"

\* numba::makeSignlessType
makeSignlessType(t) ==
  IF t.kind = "int" /\ ~isSignless(t) THEN IntegerType(t.width, "signless") ELSE t

isInt(t) == t.kind = "int"
isFloat(t) == t.kind = "float"
isIndex(t) == t.kind = "index"
isComplex(t) == t.kind = "complex"
\* every modelled complex type has a float element type
isFloatComplex(t) == t.kind = "complex"
isSupportedType(t) == isInt(t) \/ isFloat(t) \/ isComplex(t)

(***************************************************************************)
(* IR values.  A value is the tree of ops computing it: op name, result    *)
(* type, operand values, a string attribute (predicate) and an integer     *)
(* attribute (constant value / operand index).                             *)
(***************************************************************************)
MkOp(name, type, args, attr, idx) ==
  [op |-> name, type |-> type, args |-> args, attr |-> attr, idx |-> idx]

\* the i-th operand of the op under conversion
Operand(i, type) == MkOp("arg", type, <<>>, "", i)
\* the null mlir::Value
NullValue == MkOp("null", NullType, <<>>, "", 0)
\* llvm_unreachable / failed assert / cast<> on a wrong type while building
AbortValue == MkOp("abort", NullType, <<>>, "", 0)

Bad(v) == v.op \in {"null", "abort"}

\* Builders.  Building an op on a null or aborted operand aborts.
Build(name, type, args, attr, idx) ==
  IF \E i \in 1..Len(args) : Bad(args[i]) THEN AbortValue
  ELSE MkOp(name, type, args, attr, idx)

SignCastOp(type, v) == Build("numba_util.sign_cast", type, <<v>>, "", 0)
ExtSIOp(type, v) == Build("arith.extsi", type, <<v>>, "", 0)
ExtUIOp(type, v) == Build("arith.extui", type, <<v>>, "", 0)
TruncIOp(type, v) == Build("arith.trunci", type, <<v>>, "", 0)
ConstantIntOp(value, width) ==
  MkOp("arith.constant", IntegerType(width, "signless"), <<>>, "", value)
ConstantFloatOp(type) == MkOp("arith.constant", type, <<>>, "0.0", 0)
CmpIOp(pred, a, b) ==
  Build("arith.cmpi", IntegerType(1, "signless"), <<a, b>>, pred, 0)
CmpFOp(pred, a, b) ==
  Build("arith.cmpf", IntegerType(1, "signless"), <<a, b>>, pred, 0)
\* arith.select cond, a, b : a if cond else b
SelectOp(c, a, b) == Build("arith.select", a.type, <<c, a, b>>, "", 0)
\* an op with the SameOperandsAndResultType trait
SameTypeOp(name, args) ==
  IF Len(args) = 0 \/ Bad(args[1]) THEN AbortValue
  ELSE Build(name, args[1].type, args, "", 0)
CastLikeOp(name, type, v) == Build(name, type, <<v>>, "", 0)

(***************************************************************************)
(* CastUtils.cpp                                                           *)
(***************************************************************************)
\* numba::indexCast(builder, loc, val, dstType)
indexCast(val, dstType) ==
  LET srcType == val.type
      newSrcType == makeSignlessType(srcType)
      v1 == IF newSrcType # srcType THEN SignCastOp(newSrcType, val) ELSE val
      newDstType == makeSignlessType(dstType)
      v2 == CastLikeOp("arith.index_cast", newDstType, v1)
  IN IF srcType = dstType THEN val
     ELSE IF newDstType # dstType THEN SignCastOp(dstType, v2) ELSE v2

\* narrowing to i1 is select(val == 0, false, true), not a truncation
intCast(val, dstType) ==
  LET srcIntType == val.type
      srcSignless == makeSignlessType(srcIntType)
      dstSignless == makeSignlessType(dstType)
      srcBits == srcIntType.width
      dstBits == dstType.width
      v1 == IF srcIntType # srcSignless THEN SignCastOp(srcSignless, val) ELSE val
      v2 == IF dstBits > srcBits
              THEN (IF isSigned(srcIntType) THEN ExtSIOp(dstSignless, v1)
                                            ELSE ExtUIOp(dstSignless, v1))
            ELSE IF dstBits < srcBits
              THEN (IF dstBits = 1
                      THEN SelectOp(CmpIOp("eq", v1, ConstantIntOp(0, srcBits)),
                                    ConstantIntOp(0, 1), ConstantIntOp(1, 1))
                      ELSE TruncIOp(dstSignless, v1))
            ELSE v1
  IN IF dstType # dstSignless THEN SignCastOp(dstType, v2) ELSE v2

intFloatCast(val, dstType) ==
  LET srcIntType == val.type
      signlessType == makeSignlessType(srcIntType)
      v1 == IF val.type # signlessType THEN SignCastOp(signlessType, val) ELSE val
  IN IF isSigned(srcIntType) THEN CastLikeOp("arith.sitofp", dstType, v1)
                             ELSE CastLikeOp("arith.uitofp", dstType, v1)

floatIntCast(val, dstType) ==
  LET dstSignlessType == makeSignlessType(dstType)
      floatType == val.type
      res == IF dstType.width = 1
               THEN (IF floatType.width \in {32, 64}
                       THEN SelectOp(CmpFOp("oeq", val, ConstantFloatOp(floatType)),
                                     ConstantIntOp(0, 1), ConstantIntOp(1, 1))
                       ELSE AbortValue)  \* llvm_unreachable("Umhandled float type")
             ELSE IF isSigned(dstType)
               THEN CastLikeOp("arith.fptosi", dstSignlessType, val)
             ELSE CastLikeOp("arith.fptoui", dstSignlessType, val)
  IN IF dstSignlessType # dstType THEN SignCastOp(dstType, res) ELSE res

indexCastImpl(val, dstType) ==
  LET i64 == IntegerType(64, "signless")
      v1 == IF isFloat(val.type) THEN CastLikeOp("arith.fptosi", i64, val) ELSE val
  IN IF isFloat(dstType)
       THEN CastLikeOp("arith.sitofp", dstType, indexCast(v1, i64))
       ELSE indexCast(v1, dstType)

floatCastImpl(val, dstType) ==
  IF val.type = dstType THEN AbortValue  \* assert(srcFloatType != dstFloatType)
  ELSE IF dstType.width > val.type.width
    THEN CastLikeOp("arith.extf", dstType, val)
    ELSE CastLikeOp("arith.truncf", dstType, val)

complexFromReal(val, complexType) ==
  Build("complex.create", complexType,
        <<val, ConstantFloatOp(FloatType(complexType.width))>>, "", 0)

floatFloatComplexCast(val, dstType) ==
  LET elemType == FloatType(dstType.width)
      v1 == IF val.type # elemType THEN floatCastImpl(val, elemType) ELSE val
  IN complexFromReal(v1, dstType)

intFloatComplexCast(val, dstType) ==
  complexFromReal(intFloatCast(val, FloatType(dstType.width)), dstType)

\* castHandlers, in table order: <<src selector, dst selector, handler name>>
castHandlers ==
  << <<"int", "int", "intCast">>,
     <<"int", "float", "intFloatCast">>,
     <<"float", "int", "floatIntCast">>,
     <<"index", "int", "indexCastImpl">>,
     <<"int", "index", "indexCastImpl">>,
     <<"float", "float", "floatCastImpl">>,
     <<"index", "float", "indexCastImpl">>,
     <<"float", "index", "indexCastImpl">>,
     <<"int", "complex", "intFloatComplexCast">>,
     <<"float", "complex", "floatFloatComplexCast">> >>

\* indices of the handlers whose selectors accept (srcType, dstType)
MatchingHandlers(srcType, dstType) ==
  {i \in 1..Len(castHandlers) :
     castHandlers[i][1] = srcType.kind /\ castHandlers[i][2] = dstType.kind}

canConvert(srcType, dstType) ==
  srcType = dstType \/ MatchingHandlers(srcType, dstType) # {}

ApplyCast(name, val, dstType) ==
  CASE name = "intCast" -> intCast(val, dstType)
    [] name = "intFloatCast" -> intFloatCast(val, dstType)
    [] name = "floatIntCast" -> floatIntCast(val, dstType)
    [] name = "indexCastImpl" -> indexCastImpl(val, dstType)
    [] name = "floatCastImpl" -> floatCastImpl(val, dstType)
    [] name = "intFloatComplexCast" -> intFloatComplexCast(val, dstType)
    [] name = "floatFloatComplexCast" -> floatFloatComplexCast(val, dstType)

\* numba::doConvert: the first matching handler, nullptr when there is none
doConvert(val, dstType) ==
  LET srcType == val.type
      hs == MatchingHandlers(srcType, dstType)
  IN IF Bad(val) THEN AbortValue       \* val.getType() on a null value
     ELSE IF srcType = dstType THEN val
     ELSE IF hs # {}
       THEN ApplyCast(castHandlers[CHOOSE i \in hs : \A j \in hs : i <= j][3],
                      val, dstType)
     ELSE NullValue

(***************************************************************************)
(* PlierToStd.cpp: operand coercion and the binary operator table          *)
(***************************************************************************)
getBitsCount(t) ==
  CASE t.kind = "int" -> t.width
    [] t.kind \in {"float", "complex"} /\ t.width = 16 -> 11
    [] t.kind \in {"float", "complex"} /\ t.width = 32 -> 24
    [] t.kind \in {"float", "complex"} /\ t.width = 64 -> 53

\* variant of coerce: on equal bit counts the second type wins
coerceSecondOnTie(type0, type1) ==
  IF isComplex(type0) /\ ~isComplex(type1) THEN type0
  ELSE IF ~isComplex(type0) /\ isComplex(type1) THEN type1
  ELSE IF isFloat(type0) /\ ~isFloat(type1) THEN type0
  ELSE IF ~isFloat(type0) /\ isFloat(type1) THEN type1
  ELSE IF getBitsCount(type0) <= getBitsCount(type1) THEN type1 ELSE type0

coerce(type0, type1) ==
  LET c0 == isComplex(type0)
      c1 == isComplex(type1)
      f0 == isFloat(type0)
      f1 == isFloat(type1)
  IN IF c0 /\ ~c1 THEN type0
     ELSE IF ~c0 /\ c1 THEN type1
     ELSE IF f0 /\ ~f1 THEN type0
     ELSE IF ~f0 /\ f1 THEN type1
     ELSE IF getBitsCount(type0) < getBitsCount(type1) THEN type1 ELSE type0

\* replaceOp<T>: operands to the signless result type, T, back to the result type
replaceOp(T, operands, newType) ==
  LET signlessType == makeSignlessType(newType)
      newOperands == [i \in 1..Len(operands) |-> doConvert(operands[i], signlessType)]
  IN doConvert(SameTypeOp(T, newOperands), newType)

replaceIpowOp(operands, newType) ==
  LET a == doConvert(operands[1], FloatType(64))
      b == doConvert(operands[2], FloatType(64))
  IN doConvert(SameTypeOp("math.powf", <<a, b>>), newType)

replaceItruedivOp(operands, newType) ==
  IF ~isFloat(newType) THEN AbortValue      \* assert(newType.isa<FloatType>())
  ELSE SameTypeOp("arith.divf",
         <<doConvert(operands[1], newType), doConvert(operands[2], newType)>>)

\* variant of replaceIfloordivOp: the signed floor-division whatever the type
replaceIfloordivOpSigned(operands, newType) ==
  IF ~isInt(newType) THEN AbortValue
  ELSE doConvert(SameTypeOp("arith.floordivsi",
                   <<doConvert(operands[1], makeSignlessType(newType)),
                     doConvert(operands[2], makeSignlessType(newType))>>),
                 newType)

replaceIfloordivOp(operands, newType) ==
  IF ~isInt(newType) THEN AbortValue        \* newType.cast<IntegerType>()
  ELSE LET signlessType == makeSignlessType(newType)
           lhs == doConvert(operands[1], signlessType)
           rhs == doConvert(operands[2], signlessType)
           res == IF isSigned(newType)
                    THEN SameTypeOp("arith.floordivsi", <<lhs, rhs>>)
                    ELSE SameTypeOp("arith.divui", <<lhs, rhs>>)
       IN doConvert(res, newType)

replaceFfloordivOp(operands, newType) ==
  IF ~isFloat(newType) THEN AbortValue
  ELSE LET lhs == doConvert(operands[1], newType)
           rhs == doConvert(operands[2], newType)
       IN SameTypeOp("math.floor", <<SameTypeOp("arith.divf", <<lhs, rhs>>)>>)

replaceImodOp(operands, newType) ==
  LET signlessType == makeSignlessType(operands[1].type)
      a == doConvert(operands[1], signlessType)
      b == doConvert(operands[2], signlessType)
      v1 == SameTypeOp("arith.remsi", <<a, b>>)
      v2 == SameTypeOp("arith.addi", <<v1, b>>)
      res == SameTypeOp("arith.remsi", <<v2, b>>)
  IN doConvert(res, newType)

replaceFmodOp(operands, newType) ==
  LET a == operands[1]
      b == operands[2]
      v1 == SameTypeOp("arith.remf", <<a, b>>)
      v2 == SameTypeOp("arith.addf", <<v1, b>>)
  IN SameTypeOp("arith.remf", <<v2, b>>)

\* variant of replaceCmpiOp: the signed predicate whatever the type
replaceCmpiOpSigned(SignedPred, UnsignedPred, operands, newType) ==
  IF Len(operands) # 2 \/ operands[1].type # operands[2].type
       \/ ~isInt(operands[1].type)
    THEN AbortValue
  ELSE CmpIOp(SignedPred,
              doConvert(operands[1], makeSignlessType(operands[1].type)),
              doConvert(operands[2], makeSignlessType(operands[1].type)))

\* replaceCmpiOp<SignedPred, UnsignedPred>
replaceCmpiOp(SignedPred, UnsignedPred, operands, newType) ==
  IF Len(operands) # 2 \/ operands[1].type # operands[2].type
       \/ ~isInt(operands[1].type)
    THEN AbortValue
  ELSE LET type == operands[1].type
           signlessType == makeSignlessType(type)
           a == doConvert(operands[1], signlessType)
           b == doConvert(operands[2], signlessType)
       IN IF SignedPred = UnsignedPred \/ isSigned(type)
            THEN CmpIOp(SignedPred, a, b)
            ELSE CmpIOp(UnsignedPred, a, b)

replaceCmpfOp(Pred, operands, newType) ==
  LET signlessType == makeSignlessType(operands[1].type)
      a == doConvert(operands[1], signlessType)
      b == doConvert(operands[2], signlessType)
  IN CmpFOp(Pred, a, b)

invalidReplaceOp == AbortValue              \* llvm_unreachable

\* the operator names of the handlers[] table of BinOpLowering
BinOpNames ==
  {"+", "-", "*", "**", "/", "//", "%", "&", "|", "^", ">>", "<<",
   ">", ">=", "<", "<=", "!=", "=="}

\* handlers[].iop
iop(name, operands, resType) ==
  CASE name = "+" -> replaceOp("arith.addi", operands, resType)
    [] name = "-" -> replaceOp("arith.subi", operands, resType)
    [] name = "*" -> replaceOp("arith.muli", operands, resType)
    [] name = "**" -> replaceIpowOp(operands, resType)
    [] name = "/" -> replaceItruedivOp(operands, resType)
    [] name = "//" -> replaceIfloordivOp(operands, resType)
    [] name = "%" -> replaceImodOp(operands, resType)
    [] name = "&" -> replaceOp("arith.andi", operands, resType)
    [] name = "|" -> replaceOp("arith.ori", operands, resType)
    [] name = "^" -> replaceOp("arith.xori", operands, resType)
    [] name = ">>" -> replaceOp("arith.shrsi", operands, resType)
    [] name = "<<" -> replaceOp("arith.shli", operands, resType)
    [] name = ">" -> replaceCmpiOp("sgt", "ugt", operands, resType)
    [] name = ">=" -> replaceCmpiOp("sge", "uge", operands, resType)
    [] name = "<" -> replaceCmpiOp("slt", "ult", operands, resType)
    [] name = "<=" -> replaceCmpiOp("sle", "ule", operands, resType)
    [] name = "!=" -> replaceCmpiOp("ne", "ne", operands, resType)
    [] name = "==" -> replaceCmpiOp("eq", "eq", operands, resType)

\* handlers[].fop
fop(name, operands, resType) ==
  CASE name = "+" -> replaceOp("arith.addf", operands, resType)
    [] name = "-" -> replaceOp("arith.subf", operands, resType)
    [] name = "*" -> replaceOp("arith.mulf", operands, resType)
    [] name = "**" -> replaceOp("math.powf", operands, resType)
    [] name = "/" -> replaceOp("arith.divf", operands, resType)
    [] name = "//" -> replaceFfloordivOp(operands, resType)
    [] name = "%" -> replaceFmodOp(operands, resType)
    [] name \in {"&", "|", "^", ">>", "<<"} -> invalidReplaceOp
    [] name = ">" -> replaceCmpfOp("ogt", operands, resType)
    [] name = ">=" -> replaceCmpfOp("oge", operands, resType)
    [] name = "<" -> replaceCmpfOp("olt", operands, resType)
    [] name = "<=" -> replaceCmpfOp("ole", operands, resType)
    [] name = "!=" -> replaceCmpfOp("one", operands, resType)
    [] name = "==" -> replaceCmpfOp("oeq", operands, resType)

\* handlers[].cop
cop(name, operands, resType) ==
  CASE name = "+" -> replaceOp("complex.add", operands, resType)
    [] name = "-" -> replaceOp("complex.sub", operands, resType)
    [] name = "*" -> replaceOp("complex.mul", operands, resType)
    [] name = "**" -> replaceOp("complex.pow", operands, resType)
    [] name = "/" -> replaceOp("complex.div", operands, resType)
    [] OTHER -> invalidReplaceOp

\* outcome of one matchAndRewrite
Outcome(status, value, pattern) ==
  [status |-> status, value |-> value, pattern |-> pattern]

\* the two operands after the coercion step of BinOpLowering (lines 450-460)
convertedOperands(type0, type1) ==
  LET operands == <<Operand(0, type0), Operand(1, type1)>>
  IN IF type0 # type1
       THEN <<doConvert(operands[1], coerce(type0, type1)),
              doConvert(operands[2], coerce(type0, type1))>>
       ELSE operands

finalTypeOf(type0, type1) == IF type0 # type1 THEN coerce(type0, type1) ELSE type0

\* the tail of callHandler: a sign-cast when the handler's result type differs
\* from the result type, then rewriter.replaceOp
replaceWith(res, resType) ==
  IF Bad(res) THEN Outcome("abort", AbortValue, "BinOpLowering")
  ELSE IF res.type # resType
    THEN Outcome("success", SignCastOp(resType, res), "BinOpLowering")
  ELSE Outcome("success", res, "BinOpLowering")

\* callHandler: the table entry of the operator
callHandler(mem, name, operands, resType) ==
  IF name \notin BinOpNames THEN Outcome("failure", NullValue, "BinOpLowering")
  ELSE replaceWith(CASE mem = "iop" -> iop(name, operands, resType)
                     [] mem = "fop" -> fop(name, operands, resType)
                     [] mem = "cop" -> cop(name, operands, resType),
                   resType)

\* lines 461-543 of BinOpLowering::matchAndRewrite: the assertions, the dispatch
dispatch(op, finalType, operands) ==
  IF Bad(operands[1]) \/ Bad(operands[2])
    \* assert(convertedOperands[0]); assert(convertedOperands[1]);
    THEN Outcome("abort", NullValue, "BinOpLowering")
  ELSE callHandler(CASE isInt(finalType) -> "iop"
                     [] isFloat(finalType) -> "fop"
                     [] isComplex(finalType) -> "cop",
                   op.op, operands, op.resType)

\* BinOpLowering::matchAndRewrite on a plier.binop
BinOpLowering(op) ==
  IF ~isSupportedType(op.operandTypes[1]) \/ ~isSupportedType(op.operandTypes[2])
    THEN Outcome("failure", NullValue, "BinOpLowering")
  ELSE IF ~isSupportedType(op.resType)
    THEN Outcome("failure", NullValue, "BinOpLowering")
  ELSE dispatch(op, finalTypeOf(op.operandTypes[1], op.operandTypes[2]),
                convertedOperands(op.operandTypes[1], op.operandTypes[2]))

\* numba_util.tuple_extract of element i (0-based) of operand arg
TupleExtractOp(elemType, argIdx, argType, i) ==
  MkOp("numba_util.tuple_extract", elemType,
       <<Operand(argIdx, argType), MkOp("arith.constant", IndexType, <<>>, "", i)>>,
       "", 0)

\* variant of BinOpTupleLowering: the elements of the right tuple come first
BinOpTupleLoweringRhsFirst(op) ==
  LET lhsType == op.operandTypes[1]
      rhsType == op.operandTypes[2]
      lhsArgs == [i \in 1..Len(lhsType.elems) |->
                    TupleExtractOp(lhsType.elems[i], 0, lhsType, i - 1)]
      rhsArgs == [i \in 1..Len(rhsType.elems) |->
                    TupleExtractOp(rhsType.elems[i], 1, rhsType, i - 1)]
      newArgs == rhsArgs \o lhsArgs
  IN IF lhsType.kind # "tuple" \/ rhsType.kind # "tuple" \/ op.op # "+"
       THEN Outcome("failure", NullValue, "BinOpTupleLowering")
       ELSE Outcome("success",
                    MkOp("numba_util.build_tuple",
                         TupleType([i \in 1..Len(newArgs) |-> newArgs[i].type]),
                         newArgs, "", 0),
                    "BinOpTupleLowering")

\* BinOpTupleLowering::matchAndRewrite
BinOpTupleLowering(op) ==
  LET lhsType == op.operandTypes[1]
      rhsType == op.operandTypes[2]
      lhsArgs == [i \in 1..Len(lhsType.elems) |->
                    TupleExtractOp(lhsType.elems[i], 0, lhsType, i - 1)]
      rhsArgs == [i \in 1..Len(rhsType.elems) |->
                    TupleExtractOp(rhsType.elems[i], 1, rhsType, i - 1)]
      newArgs == lhsArgs \o rhsArgs
      newTypes == [i \in 1..Len(newArgs) |-> newArgs[i].type]
  IN IF lhsType.kind # "tuple"
       THEN Outcome("failure", NullValue, "BinOpTupleLowering")
     ELSE IF op.op = "+"
       THEN (IF rhsType.kind # "tuple"
               THEN Outcome("failure", NullValue, "BinOpTupleLowering")
               ELSE Outcome("success",
                            MkOp("numba_util.build_tuple", TupleType(newTypes),
                                 newArgs, "", 0),
                            "BinOpTupleLowering"))
     ELSE Outcome("failure", NullValue, "BinOpTupleLowering")

(***************************************************************************)
(* PlierToStd.cpp: unary operators                                         *)
(***************************************************************************)
negate(val0, resType) ==
  LET val == doConvert(val0, resType)
      signless == makeSignlessType(resType)
      v1 == IF signless # resType THEN SignCastOp(signless, val) ELSE val
      zero == MkOp("arith.constant", signless, <<>>, "", 0)
      res == SameTypeOp("arith.subi", <<zero, v1>>)
  IN IF isInt(resType)
       THEN (IF signless # resType THEN SignCastOp(resType, res) ELSE res)
     ELSE IF isFloat(resType) THEN SameTypeOp("arith.negf", <<val>>)
     ELSE IF isComplex(resType) THEN SameTypeOp("complex.neg", <<val>>)
     ELSE AbortValue                        \* llvm_unreachable

unaryPlus(arg, resType) == doConvert(arg, resType)

unaryMinus(arg, resType) == negate(arg, resType)

unaryNot(arg, resType) ==
  LET i1 == IntegerType(1, "signless")
      casted == doConvert(arg, i1)
  IN SameTypeOp("arith.subi", <<ConstantIntOp(1, 1), casted>>)

unaryInvert(arg, resType) ==
  LET intType0 == arg.type
      isBool == intType0.width = 1
      intType == IF isBool THEN IntegerType(64, "signless") ELSE intType0
      signlessType == IF isBool THEN intType ELSE makeSignlessType(intType0)
      a1 == IF isBool THEN ExtUIOp(intType, arg)
            ELSE IF intType # signlessType THEN SignCastOp(signlessType, arg)
            ELSE arg
      all == MkOp("arith.constant", signlessType, <<>>, "", -1)
      a2 == SameTypeOp("arith.xori", <<all, a1>>)
      a3 == IF intType # signlessType THEN SignCastOp(intType, a2) ELSE a2
  IN IF ~isInt(intType0) THEN NullValue
     ELSE IF resType # a3.type THEN doConvert(a3, resType)
     ELSE a3

UnaryOpNames == {"+", "-", "not", "~"}

\* the tail of UnaryOpLowering::matchAndRewrite: a null result is a failure
unaryResult(res) ==
  IF res.op = "null" THEN Outcome("failure", NullValue, "UnaryOpLowering")
  ELSE IF res.op = "abort" THEN Outcome("abort", res, "UnaryOpLowering")
  ELSE Outcome("success", res, "UnaryOpLowering")

\* UnaryOpLowering::matchAndRewrite on a plier.unary
UnaryOpLowering(op) ==
  IF ~isSupportedType(op.operandTypes[1])
    THEN Outcome("failure", NullValue, "UnaryOpLowering")
  ELSE IF op.op \notin UnaryOpNames
    THEN Outcome("failure", NullValue, "UnaryOpLowering")
  ELSE unaryResult(
         CASE op.op = "+" -> unaryPlus(Operand(0, op.operandTypes[1]), op.resType)
           [] op.op = "-" -> unaryMinus(Operand(0, op.operandTypes[1]), op.resType)
           [] op.op = "not" -> unaryNot(Operand(0, op.operandTypes[1]), op.resType)
           [] op.op = "~" -> unaryInvert(Operand(0, op.operandTypes[1]), op.resType))

(***************************************************************************)
(* Run-time semantics of the integer ops the lowerings emit.  A w-bit      *)
(* value is the set of bit positions in 0..w-1 that hold a 1.              *)
(***************************************************************************)
\* widest integer type whose arithmetic (add, rem) is evaluated
MaxEvalWidth == 4

RECURSIVE ToU(_)
\* the unsigned number a bit set stands for
ToU(b) == IF b = {} THEN 0
          ELSE LET i == CHOOSE x \in b : TRUE IN 2^i + ToU(b \ {i})

\* the two's-complement number a w-bit set stands for
ToS(b, w) == IF (w - 1) \in b THEN ToU(b) - 2^w ELSE ToU(b)

\* the w-bit pattern of an integer n (two's complement, n taken modulo 2^w);
\* only the constant -1 is negative at a width that is not evaluated
BitsOf(n, w) ==
  IF n = -1 THEN 0..(w - 1)
  ELSE LET m == IF n < 0 THEN n % 2^w ELSE n
           top == IF w > MaxEvalWidth + 1 THEN MaxEvalWidth + 1 ELSE w
       IN {i \in 0..(top - 1) : (m \div 2^i) % 2 = 1}

\* the result of an undefined operation
Poison == {-1}

\* arith.remsi: remainder with the sign of the dividend; division by zero
\* and INT_MIN rem -1 are undefined
RemSI(a, b, w) ==
  LET x == ToS(a, w)
      y == ToS(b, w)
      ax == IF x < 0 THEN -x ELSE x
      ay == IF y < 0 THEN -y ELSE y
  IN IF y = 0 \/ (x = -(2^(w - 1)) /\ y = -1) THEN Poison
     ELSE BitsOf(IF x < 0 THEN -(ax % ay) ELSE ax % ay, w)

RECURSIVE Eval(_, _)
\* the value of tree v when the operands of the converted op hold vals
Eval(v, vals) ==
  LET w == v.type.width
      a == IF Len(v.args) >= 1 THEN Eval(v.args[1], vals) ELSE {}
      b == IF Len(v.args) >= 2 THEN Eval(v.args[2], vals) ELSE {}
      c == IF Len(v.args) >= 3 THEN Eval(v.args[3], vals) ELSE {}
      srcW == IF Len(v.args) >= 1 THEN v.args[1].type.width ELSE 0
  IN IF Poison \in {a, b, c} THEN Poison
     ELSE CASE v.op = "arg" -> vals[v.idx + 1]
       [] v.op = "arith.constant" -> BitsOf(v.idx, w)
       [] v.op = "numba_util.sign_cast" -> a
       [] v.op = "arith.extui" -> a
       [] v.op = "arith.extsi" ->
            IF (srcW - 1) \in a THEN a \cup (srcW..(w - 1)) ELSE a
       [] v.op = "arith.trunci" -> a \cap (0..(w - 1))
       [] v.op = "arith.xori" -> (a \ b) \cup (b \ a)
       [] v.op = "arith.andi" -> a \cap b
       [] v.op = "arith.ori" -> a \cup b
       [] v.op = "arith.cmpi" /\ v.attr = "eq" -> IF a = b THEN {0} ELSE {}
       [] v.op = "arith.cmpi" /\ v.attr = "ne" -> IF a # b THEN {0} ELSE {}
       [] v.op = "arith.select" -> IF a = {0} THEN b ELSE c
       [] v.op = "arith.addi" /\ w <= MaxEvalWidth -> BitsOf(ToU(a) + ToU(b), w)
       [] v.op = "arith.subi" /\ w <= MaxEvalWidth -> BitsOf(ToU(a) - ToU(b), w)
       [] v.op = "arith.remsi" /\ w <= MaxEvalWidth -> RemSI(a, b, w)
       [] OTHER -> Poison

RECURSIVE OpsOf(_)
\* the names of the ops of a tree (its operand leaves excluded)
OpsOf(v) ==
  (IF v.op = "arg" THEN {} ELSE {v.op})
    \cup UNION {OpsOf(v.args[i]) : i \in 1..Len(v.args)}

RECURSIVE CountOp(_, _)
\* how many ops named name a tree holds
CountOp(v, name) ==
  LET Sum[i \in 0..Len(v.args)] ==
        IF i = 0 THEN 0 ELSE Sum[i - 1] + CountOp(v.args[i], name)
  IN (IF v.op = name THEN 1 ELSE 0) + Sum[Len(v.args)]

(***************************************************************************)
(* PlierToStdPass: the conversion target and the pattern driver            *)
(***************************************************************************)
PlierOp(name, opname, operandTypes, resType) ==
  [name |-> name, op |-> opname, operandTypes |-> operandTypes, resType |-> resType]

NoOp == PlierOp("none", "", <<>>, NullType)

\* no pattern has run on the op yet
Pending == [status |-> "pending", value |-> NullValue, pattern |-> "", tried |-> {}]

\* isNum / isTuple of PlierToStdPass::runOnOperation (the converter is the identity
\* on the modelled types)
isNum(t) == isInt(t) \/ isFloat(t) \/ isIndex(t) \/ isComplex(t)
isTuple(t) == t.kind = "tuple"

\* target.addDynamicallyLegalOp<plier::BinOp>
isLegalBinOp(op) ==
  LET lhsType == op.operandTypes[1]
      rhsType == op.operandTypes[2]
  IN IF op.op = "+" /\ isTuple(lhsType) /\ isTuple(rhsType) THEN FALSE
     ELSE ~isNum(lhsType) \/ ~isNum(rhsType) \/ ~isNum(op.resType)

\* target.addDynamicallyLegalOp<plier::UnaryOp>
isLegalUnaryOp(op) == ~isNum(op.operandTypes[1]) /\ ~isNum(op.resType)

\* the driver hands an illegal op to a pattern it has not tried on it
CanTry(pattern) ==
  /\ lowered.status \in {"pending", "failure"}
  /\ pattern \notin lowered.tried

Tried(outcome) ==
  [status |-> outcome.status, value |-> outcome.value,
   pattern |-> outcome.pattern, tried |-> lowered.tried \cup {outcome.pattern}]

ApplyBinOpLowering ==
  /\ plierOp.name = "plier.binop"
  /\ ~isLegalBinOp(plierOp)
  /\ CanTry("BinOpLowering")
  /\ lowered' = Tried(BinOpLowering(plierOp))
  /\ UNCHANGED <<plierOp, operandVals, inlVars, gpuVars, otherVars>>

ApplyBinOpTupleLowering ==
  /\ plierOp.name = "plier.binop"
  /\ ~isLegalBinOp(plierOp)
  /\ CanTry("BinOpTupleLowering")
  /\ lowered' = Tried(BinOpTupleLowering(plierOp))
  /\ UNCHANGED <<plierOp, operandVals, inlVars, gpuVars, otherVars>>

ApplyUnaryOpLowering ==
  /\ plierOp.name = "plier.unary"
  /\ ~isLegalUnaryOp(plierOp)
  /\ CanTry("UnaryOpLowering")
  /\ lowered' = Tried(UnaryOpLowering(plierOp))
  /\ UNCHANGED <<plierOp, operandVals, inlVars, gpuVars, otherVars>>

\* ---- inputs
\* longest tuple type among the inputs
MaxTupleLen == 2

TupleElemTypes == {IntegerType(64, "signed"), FloatType(64), IntegerType(1, "signless")}

RECURSIVE SeqsUpTo(_, _)
SeqsUpTo(S, n) ==
  IF n = 0 THEN {<<>>}
  ELSE LET shorter == SeqsUpTo(S, n - 1)
       IN shorter \cup {Append(q, x) : q \in shorter, x \in S}

TupleTypes == {TupleType(ts) : ts \in SeqsUpTo(TupleElemTypes, MaxTupleLen)}

EvalIntTypes == {IntegerType(w, s) : w \in 2..MaxEvalWidth, s \in Signedness}

\* all values of a w-bit integer
ValuesOf(w) == SUBSET (0..(w - 1))

PlierIdle == plierOp = NoOp /\ operandVals = <<>> /\ lowered = Pending

\* a numeric plier.binop of any operator, operand types and result type
BinOpInit ==
  /\ \E name \in BinOpNames, t0 \in NumTypes, t1 \in NumTypes, r \in NumTypes :
       plierOp = PlierOp("plier.binop", name, <<t0, t1>>, r)
  /\ operandVals = <<>>
  /\ lowered = Pending

\* a % b on two integers of one small type, with their run-time values
ModInit ==
  /\ \E t \in EvalIntTypes :
       /\ plierOp = PlierOp("plier.binop", "%", <<t, t>>, t)
       /\ \E a \in ValuesOf(t.width), b \in ValuesOf(t.width) : operandVals = <<a, b>>
  /\ lowered = Pending

TupleOperandTypes == TupleTypes \cup TupleElemTypes

\* a plier.binop with at least one tuple operand
TupleInit ==
  /\ \E name \in {"+", "-", "*", "=="}, t0 \in TupleOperandTypes,
        t1 \in TupleOperandTypes :
       plierOp = PlierOp("plier.binop", name, <<t0, t1>>,
                         IF isTuple(t0) /\ isTuple(t1)
                           THEN TupleType(t0.elems \o t1.elems) ELSE t0)
  /\ operandVals = <<>>
  /\ lowered = Pending

\* a plier.unary; a bool operand comes with its run-time value
UnaryInit ==
  /\ \E name \in UnaryOpNames, t \in NumTypes, r \in NumTypes :
       /\ plierOp = PlierOp("plier.unary", name, <<t>>, r)
       /\ \/ operandVals = <<>>
          \/ t.kind = "int" /\ t.width = 1
               /\ \E a \in ValuesOf(1) : operandVals = <<a>>
  /\ lowered = Pending

BinOpNext == ApplyBinOpLowering \/ ApplyBinOpTupleLowering
UnaryNext == ApplyUnaryOpLowering

(***************************************************************************)
(* InlineUtils.cpp: ForceInlinePass                                        *)
(***************************************************************************)
\* the func.func ops of the module
FuncNames == {"main", "inc"}
\* callee symbols: the functions of the module and one symbol that does not
\* resolve to a func.func of the module
Callees == FuncNames \cup {"ext"}

\* a func.call: its callee symbol and whether it bears the force-inline attr
CallOp(callee, attr) == [callee |-> callee, attr |-> attr]
CallKinds == {CallOp(c, a) : c \in Callees, a \in BOOLEAN}

\* longest function body (in calls) of the module before the pass
MaxInitCalls == 2
\* longest function body the rewriting may build
MaxCalls == 3
\* cap on the successful rewrites of one greedy run
MaxRewrites == 2

\* mod.lookupSymbol<func::FuncOp>(callee): the function, or "null"
lookupSymbol(callee) == IF callee \in FuncNames THEN callee ELSE "null"

\* variant of mustInline: only the attribute of the call counts
mustInlineCallOnly(call, func) == call.attr

mustInline(call, func) == call.attr \/ funcAttr[func]

\* every call op of the module, as <<function, position>>
AllCalls == {<<f, i>> : f \in FuncNames, i \in 1..MaxCalls} \cap
            {c \in FuncNames \X (1..MaxCalls) : c[2] <= Len(body[c[1]])}

\* body of f with the call at position i replaced by a clone of the callee's body
InlinedBody(f, i) ==
  LET call == body[f][i]
  IN SubSeq(body[f], 1, i - 1) \o body[call.callee]
       \o SubSeq(body[f], i + 1, Len(body[f]))

\* ForceInline::matchAndRewrite on the call at position i of f; res is the
\* outcome of mlir::inlineCall(inlinerInterface, newCall, func,
\* &func.getRegion()).  The pattern does not look at where the call stands:
\* for a call of f inside f, the source region is an ancestor of the region
\* the clone is inserted into, so Region::cloneInto copies a region that its
\* own new blocks are being added to.  MLIR's inliner pass refuses such a
\* call; here nothing does, and the copy may go on without end ("noreturn").
ForceInline(f, i, res) ==
  LET call == body[f][i]
      func == lookupSymbol(call.callee)
  IN /\ inlPc = "rewrite"
     /\ i \in 1..Len(body[f])
     /\ func # "null"
     /\ mustInline(call, func)
     /\ CASE res = "success" ->
               /\ rewrites < MaxRewrites
               /\ Len(InlinedBody(f, i)) <= MaxCalls
               /\ body' = [body EXCEPT ![f] = InlinedBody(f, i)]
               /\ rewrites' = rewrites + 1
               /\ UNCHANGED inlPc
          [] res = "noreturn" ->
               /\ func = f
               /\ inlPc' = "inlineCall"
               /\ UNCHANGED <<body, rewrites>>
          [] OTHER -> UNCHANGED <<body, rewrites, inlPc>>
     /\ UNCHANGED <<funcAttr, walked, diags, passFailed, plierVars, gpuVars, otherVars>>

ForceInlineRewrite ==
  \E f \in FuncNames, i \in 1..MaxCalls,
     res \in {"success", "failure", "noreturn"} :
    ForceInline(f, i, res)

\* applyPatternsAndFoldGreedily returns: no pattern applies any more, or the
\* driver's iteration cap was reached; its result is ignored
GreedyStop ==
  /\ inlPc = "rewrite"
  /\ inlPc' = "walk"
  /\ UNCHANGED <<body, funcAttr, rewrites, walked, diags, passFailed,
                 plierVars, gpuVars, otherVars>>

\* the walk visits the calls in module order
Before(c, d) == \/ c[1] = "main" /\ d[1] = "inc"
                \/ c[1] = d[1] /\ c[2] < d[2]

\* the callback of mod->walk on one call op
WalkCall ==
  /\ inlPc = "walk"
  /\ \E c \in AllCalls \ walked :
       /\ \A d \in AllCalls \ walked : d = c \/ Before(c, d)
       /\ LET call == body[c[1]][c[2]]
              func == lookupSymbol(call.callee)
          IN IF func # "null" /\ mustInline(call, func)
               THEN /\ diags' = diags \cup {c}
                    /\ passFailed' = TRUE
               ELSE UNCHANGED <<diags, passFailed>>
       /\ walked' = walked \cup {c}
  /\ UNCHANGED <<body, funcAttr, inlPc, rewrites, plierVars, gpuVars, otherVars>>

WalkDone ==
  /\ inlPc = "walk"
  /\ AllCalls \subseteq walked
  /\ inlPc' = "done"
  /\ UNCHANGED <<body, funcAttr, rewrites, walked, diags, passFailed,
                 plierVars, gpuVars, otherVars>>

InlIdle ==
  /\ body = [f \in FuncNames |-> <<>>]
  /\ funcAttr = [f \in FuncNames |-> FALSE]
  /\ inlPc = "idle"
  /\ rewrites = 0 /\ walked = {} /\ diags = {} /\ passFailed = FALSE

InlInit ==
  /\ \E m \in SeqsUpTo(CallKinds, MaxInitCalls), n \in SeqsUpTo(CallKinds, 1) :
       body = [f \in FuncNames |-> IF f = "main" THEN m ELSE n]
  /\ funcAttr \in [FuncNames -> BOOLEAN]
  /\ inlPc = "rewrite"
  /\ rewrites = 0 /\ walked = {} /\ diags = {} /\ passFailed = FALSE

InlNext == ForceInlineRewrite \/ GreedyStop \/ WalkCall \/ WalkDone

(***************************************************************************)
(* PlierToStd.cpp: populatePlierToStdPipeline, the ForceInlinePass and the *)
(* SymbolDCEPass that follows it                                           *)
(***************************************************************************)
\* symbol visibility of a func.func: func::FuncOp::create leaves it public
\* (Lowering.cpp, createFunc), ExternalCallsLowering::resolveCall makes the
\* function it got from the resolver private
Visibilities == {"public", "private"}

\* the functions of the module that the bodies of the functions of S refer to
CalledFrom(S) ==
  {body[c[1]][c[2]].callee : c \in {d \in AllCalls : d[1] \in S}} \cap FuncNames

\* the symbols reachable from the symbols of S
RECURSIVE LiveSymbols(_)
LiveSymbols(S) ==
  IF CalledFrom(S) \subseteq S THEN S ELSE LiveSymbols(S \cup CalledFrom(S))

\* the pass manager runs mlir::createSymbolDCEPass() once ForceInlinePass has
\* succeeded: every symbol that is not public and not reachable from a live
\* op is erased
SymbolDCE ==
  /\ inlPc = "done"
  /\ ~passFailed
  /\ symbols' = LiveSymbols({f \in symbols : visibility[f] = "public"})
  /\ body' = [f \in FuncNames |-> IF f \in symbols' THEN body[f] ELSE <<>>]
  /\ inlPc' = "swept"
  /\ UNCHANGED <<funcAttr, rewrites, walked, diags, passFailed, visibility,
                 bodyOrig, plierVars, gpuVars, castVars,
                 fiVars,
                 argVars,
                 cfVars,
                 stdVars,
                 truncVars,
                 fpVars,
                 tileVars, exVars, flatVars,
                 spvVars, modVars, resVars>>

DceIdle ==
  /\ symbols = {}
  /\ visibility = [f \in FuncNames |-> "public"]
  /\ bodyOrig = [f \in FuncNames |-> <<>>]

\* the module before the two passes: every function is in the symbol table
DceInit ==
  /\ symbols = FuncNames
  /\ visibility \in [FuncNames -> Visibilities]
  /\ bodyOrig = body

InlineDceNext == InlNext \/ SymbolDCE

(***************************************************************************)
(* GpuToGpuRuntime.cpp: InsertGPUAllocs                                    *)
(* The function has one block.  Its memref values are the parameter "p0",  *)
(* the result "g" of a memref.get_global, the result "a" of a memref.alloc *)
(* and the result "x" of another producer (memref.alloca).  An op names    *)
(* the buffer it uses (views already resolved to their source), where it   *)
(* is: on the host, or inside a gpu.launch that lies in the environment    *)
(* region of device gpuA or gpuB or in no gpu environment region.          *)
(***************************************************************************)
GOp(op, buf, loc, role) ==
  [op |-> op, buf |-> buf, loc |-> loc, role |-> role,
   dev |-> FALSE,          \* the operand was replaced by the device buffer
   hostShared |-> FALSE,   \* gpu.alloc: the hostShared flag
   env |-> "none",         \* environment of the region wrapping an inserted op
   inserted |-> FALSE]     \* created by the pass

DeviceLocs == {"gpuA", "gpuB", "launch"}
\* op->getParentOfType<gpu::LaunchOp>()
onDevice(u) == u.loc \in DeviceLocs

AccessType(env, hostRead, hostWrite, deviceRead, deviceWrite) ==
  [env |-> env, hostRead |-> hostRead, hostWrite |-> hostWrite,
   deviceRead |-> deviceRead, deviceWrite |-> deviceWrite]

NoAccess == AccessType("none", FALSE, FALSE, FALSE, FALSE)

\* hasMemAccess(op)
hasMemAccess(u) ==
  u.op \in {"memref.load", "memref.store", "memref.atomic_rmw", "memref.copy",
            "func.call"}

\* getMemref(op): TRUE when the op is a load, a store or a call
getMemref(u) == u.op \in {"memref.load", "memref.store", "func.call"}

\* the op defining a buffer: "param" for a block argument
Producer(buf) ==
  CASE buf = "p0" -> "param"
    [] buf = "g" -> "memref.get_global"
    [] buf = "a" -> "memref.alloc"
    [] buf = "x" -> "memref.alloca"

\* isGpuAccessibleArg(0)
isGpuAccessibleArg(func) == func.gpuAccessible

Entry(key) == [key |-> key, access |-> NoAccess, state |-> "new"]

Keys(map) == {map[i].key : i \in 1..Len(map)}

\* SmallMapVector::insert: keeps the first entry of a key
MapInsert(map, key) == IF key \in Keys(map) THEN map ELSE Append(map, Entry(key))

RECURSIVE CollectWalk(_, _, _, _)
\* the func.walk of lines 181-231 from op i on: the two maps, or the error
CollectWalk(func, i, allocs, params) ==
  IF i > Len(func.ops) THEN [error |-> "", allocs |-> allocs, params |-> params]
  ELSE LET u == func.ops[i]
       IN IF ~onDevice(u) \/ ~hasMemAccess(u)
            THEN CollectWalk(func, i + 1, allocs, params)
          ELSE IF ~getMemref(u)
            THEN [error |-> "Uhhandled mem op in gpu region",
                  allocs |-> allocs, params |-> params]
          ELSE IF Producer(u.buf) \in {"memref.alloc", "memref.get_global"}
            THEN CollectWalk(func, i + 1, MapInsert(allocs, u.buf), params)
          ELSE IF Producer(u.buf) = "param"
            THEN CollectWalk(func, i + 1, allocs,
                   IF isGpuAccessibleArg(func) THEN params
                   ELSE MapInsert(params, u.buf))
          ELSE [error |-> "Unhandled memref producer",
                allocs |-> allocs, params |-> params]

\* variant of getEnv: no enclosing region is a gpu environment
getEnvNone(u) == "none"

\* getEnv(op): the gpu environment of the enclosing region, "none" on failure
getEnv(u) == IF u.loc \in {"gpuA", "gpuB"} THEN u.loc ELSE "none"

\* the effects of a user with the memory-effect interface
EffRead(u) == u.op \in {"memref.load", "memref.atomic_rmw"}
EffWrite(u) == u.op \in {"memref.store", "memref.atomic_rmw"}

\* the body of getAccessType's loop for one user u
AccessStep(ret, u) ==
  LET dev == onDevice(u)
      env == getEnv(u)
      conflict == dev /\ env # "none" /\ ret.env # "none" /\ ret.env # env
      newEnv == IF dev /\ env # "none" /\ ret.env = "none" THEN env ELSE ret.env
  IN IF u.op = "func.return"
       THEN [ok |-> TRUE, ret |-> [ret EXCEPT !.hostRead = TRUE, !.hostWrite = TRUE]]
     ELSE IF u.op = "memref.copy"
       THEN [ok |-> TRUE,
             ret |-> [ret EXCEPT !.hostRead = @ \/ u.role = "source",
                                 !.hostWrite = @ \/ u.role = "target"]]
     ELSE IF u.op \in {"memref.load", "memref.store", "memref.atomic_rmw"}
       THEN [ok |-> ~conflict,
             ret |-> [ret EXCEPT
                        !.hostRead = @ \/ (~dev /\ EffRead(u)),
                        !.deviceRead = @ \/ (dev /\ EffRead(u)),
                        !.hostWrite = @ \/ (~dev /\ EffWrite(u)),
                        !.deviceWrite = @ \/ (dev /\ EffWrite(u)),
                        !.env = newEnv]]
     ELSE IF u.op = "func.call"
       THEN [ok |-> ~conflict,
             ret |-> [ret EXCEPT
                        !.hostRead = @ \/ ~dev, !.hostWrite = @ \/ ~dev,
                        !.deviceRead = @ \/ dev, !.deviceWrite = @ \/ dev,
                        !.env = newEnv]]
     ELSE [ok |-> TRUE, ret |-> ret]

\* a use of the value buf (the op defining it is not one)
IsUser(u, buf) == u.buf = buf /\ u.role # "def"

RECURSIVE AccessFold(_, _, _, _)
AccessFold(ops, buf, i, ret) ==
  IF i > Len(ops) THEN [ok |-> TRUE, ret |-> ret]
  ELSE IF ~IsUser(ops[i], buf) THEN AccessFold(ops, buf, i + 1, ret)
  ELSE LET step == AccessStep(ret, ops[i])
       IN IF step.ok THEN AccessFold(ops, buf, i + 1, step.ret)
          ELSE [ok |-> FALSE, ret |-> ret]

\* getAccessType(memref): the access, or the device-conflict failure
getAccessType(func, buf) == AccessFold(func.ops, buf, 1, NoAccess)

\* lines 315-325 and 327-338: what the loops store for a buffer
AllocAccess(buf, access) ==
  IF Producer(buf) = "memref.get_global"
    THEN [access EXCEPT !.hostWrite = TRUE] ELSE access

ParamAccess(access) == [access EXCEPT !.hostRead = TRUE, !.hostWrite = TRUE]

\* position of the first op satisfying a test, 0 if none
FirstNew(map) ==
  IF \E i \in 1..Len(map) : map[i].state = "new"
    THEN CHOOSE i \in 1..Len(map) :
           map[i].state = "new" /\ \A j \in 1..(i - 1) : map[j].state # "new"
    ELSE 0

FirstClassified(map) ==
  IF \E i \in 1..Len(map) : map[i].state = "classified"
    THEN CHOOSE i \in 1..Len(map) :
           map[i].state = "classified"
             /\ \A j \in 1..(i - 1) : map[j].state # "classified"
    ELSE 0

InsertAt(ops, pos, new) == SubSeq(ops, 1, pos) \o new \o SubSeq(ops, pos + 1, Len(ops))

\* src.replaceAllUsesExcept(results, filter): the ops of the function at that
\* moment, other than the filtered ones, now use the device buffer
ReplaceUses(ops, buf) ==
  [i \in 1..Len(ops) |->
     IF IsUser(ops[i], buf) /\ ~(ops[i].inserted /\ ops[i].role = "h2d")
       THEN [ops[i] EXCEPT !.dev = TRUE] ELSE ops[i]]

Inserted(op, buf, role, env, hostShared, dev) ==
  [op |-> op, buf |-> buf, loc |-> "host", role |-> role, dev |-> dev,
   hostShared |-> hostShared, env |-> env, inserted |-> TRUE]

\* variant of AllocOps: the copy to the device whenever the host writes
AllocOpsCopyOnHostWrite(buf, access) ==
  <<[op |-> "gpu.alloc", buf |-> buf, loc |-> "host", role |-> "alloc",
     dev |-> TRUE, hostShared |-> access.hostRead \/ access.hostWrite,
     env |-> access.env, inserted |-> TRUE]>>
    \o (IF access.hostWrite
          THEN <<[op |-> "memref.copy", buf |-> buf, loc |-> "host", role |-> "h2d",
                  dev |-> FALSE, hostShared |-> FALSE, env |-> access.env,
                  inserted |-> TRUE]>>
          ELSE <<>>)

\* the ops createGpuAlloc puts at the insertion point: gpu.alloc, then the
\* host-to-device copy
AllocOps(buf, access) ==
  <<Inserted("gpu.alloc", buf, "alloc", access.env,
             access.hostRead \/ access.hostWrite, TRUE)>>
    \o (IF access.hostWrite /\ access.deviceRead
          THEN <<Inserted("memref.copy", buf, "h2d", access.env, FALSE, FALSE)>>
          ELSE <<>>)

\* the ops createGpuAlloc puts before the terminator: the copy back, then the
\* dealloc
ReleaseOps(buf, access) ==
  (IF access.hostRead /\ access.deviceWrite
     THEN <<Inserted("memref.copy", buf, "d2h", access.env, FALSE, TRUE)>>
     ELSE <<>>)
    \o <<Inserted("gpu.dealloc", buf, "dealloc", access.env, FALSE, TRUE)>>

\* position of the op defining buf (0 for the parameter: start of the block)
DefPos(ops, buf) ==
  IF \E i \in 1..Len(ops) : ops[i].buf = buf /\ ops[i].role = "def"
    THEN CHOOSE i \in 1..Len(ops) : ops[i].buf = buf /\ ops[i].role = "def"
    ELSE 0

\* createGpuAlloc(src, access) with the builder after the producer of src
createGpuAlloc(ops, buf, access) ==
  LET withAlloc == InsertAt(ops, DefPos(ops, buf), AllocOps(buf, access))
      replaced == ReplaceUses(withAlloc, buf)
  IN InsertAt(replaced, Len(replaced) - 1, ReleaseOps(buf, access))

\* lines 403-416: a memref.alloc becomes a gpu.alloc in place
replaceHostAlloc(ops, buf, access) ==
  LET pos == DefPos(ops, buf)
      gpuAlloc == [Inserted("gpu.alloc", buf, "def", access.env,
                            access.hostRead \/ access.hostWrite, FALSE)
                     EXCEPT !.role = "def"]
  IN ReplaceUses([ops EXCEPT ![pos] = gpuAlloc], buf)

\* ---- the pass, step by step
GpuUnchanged == UNCHANGED <<plierVars, inlVars, otherVars>>

\* lines 181-231
Collect ==
  /\ gpuPc = "collect"
  /\ LET r == CollectWalk(gpuFunc, 1, <<>>, <<>>)
     IN IF r.error # ""
          THEN /\ gpuDiags' = gpuDiags \cup {r.error}
               /\ gpuFailed' = TRUE
               /\ gpuPc' = "done"
               /\ UNCHANGED <<gpuBufferAllocs, gpuBufferParams>>
          ELSE /\ gpuBufferAllocs' = r.allocs
               /\ gpuBufferParams' = r.params
               /\ gpuPc' = "access"
               /\ UNCHANGED <<gpuDiags, gpuFailed>>
  /\ UNCHANGED <<gpuFunc, gpuOrig>>
  /\ GpuUnchanged

\* one iteration of the loop of lines 315-325
ClassifyAlloc ==
  /\ gpuPc = "access"
  /\ FirstNew(gpuBufferAllocs) # 0
  /\ LET i == FirstNew(gpuBufferAllocs)
         buf == gpuBufferAllocs[i].key
         r == getAccessType(gpuFunc, buf)
     IN IF ~r.ok
          THEN /\ gpuDiags' = gpuDiags \cup {"Device conflict"}
               /\ gpuFailed' = TRUE
               /\ gpuPc' = "done"
               /\ UNCHANGED gpuBufferAllocs
          ELSE /\ gpuBufferAllocs' =
                    [gpuBufferAllocs EXCEPT ![i] =
                       [key |-> buf, access |-> AllocAccess(buf, r.ret),
                        state |-> "classified"]]
               /\ UNCHANGED <<gpuDiags, gpuFailed, gpuPc>>
  /\ UNCHANGED <<gpuFunc, gpuOrig, gpuBufferParams>>
  /\ GpuUnchanged

\* one iteration of the loop of lines 327-338
ClassifyParam ==
  /\ gpuPc = "access"
  /\ FirstNew(gpuBufferAllocs) = 0
  /\ FirstNew(gpuBufferParams) # 0
  /\ LET i == FirstNew(gpuBufferParams)
         buf == gpuBufferParams[i].key
         r == getAccessType(gpuFunc, buf)
     IN IF ~r.ok
          THEN /\ gpuDiags' = gpuDiags \cup {"Device conflict"}
               /\ gpuFailed' = TRUE
               /\ gpuPc' = "done"
               /\ UNCHANGED gpuBufferParams
          ELSE /\ gpuBufferParams' =
                    [gpuBufferParams EXCEPT ![i] =
                       [key |-> buf, access |-> ParamAccess(r.ret),
                        state |-> "classified"]]
               /\ UNCHANGED <<gpuDiags, gpuFailed, gpuPc>>
  /\ UNCHANGED <<gpuFunc, gpuOrig, gpuBufferAllocs>>
  /\ GpuUnchanged

\* both loops are through: the insertion starts
StartInsert ==
  /\ gpuPc = "access"
  /\ FirstNew(gpuBufferAllocs) = 0
  /\ FirstNew(gpuBufferParams) = 0
  /\ gpuPc' = "insert"
  /\ UNCHANGED <<gpuFunc, gpuOrig, gpuBufferAllocs, gpuBufferParams, gpuFailed,
                 gpuDiags>>
  /\ GpuUnchanged

\* one iteration of the loop of lines 402-424
InsertForAlloc ==
  /\ gpuPc = "insert"
  /\ FirstClassified(gpuBufferAllocs) # 0
  /\ LET i == FirstClassified(gpuBufferAllocs)
         e == gpuBufferAllocs[i]
     IN /\ gpuFunc' =
             [gpuFunc EXCEPT !.ops =
                IF Producer(e.key) = "memref.alloc"
                  THEN replaceHostAlloc(@, e.key, e.access)
                  ELSE createGpuAlloc(@, e.key, e.access)]
        /\ gpuBufferAllocs' = [gpuBufferAllocs EXCEPT ![i].state = "inserted"]
  /\ UNCHANGED <<gpuOrig, gpuPc, gpuBufferParams, gpuFailed, gpuDiags>>
  /\ GpuUnchanged

\* one iteration of the loop of lines 426-431
InsertForParam ==
  /\ gpuPc = "insert"
  /\ FirstClassified(gpuBufferAllocs) = 0
  /\ FirstClassified(gpuBufferParams) # 0
  /\ LET i == FirstClassified(gpuBufferParams)
         e == gpuBufferParams[i]
     IN /\ gpuFunc' = [gpuFunc EXCEPT !.ops = createGpuAlloc(@, e.key, e.access)]
        /\ gpuBufferParams' = [gpuBufferParams EXCEPT ![i].state = "inserted"]
  /\ UNCHANGED <<gpuOrig, gpuPc, gpuBufferAllocs, gpuFailed, gpuDiags>>
  /\ GpuUnchanged

GpuDone ==
  /\ gpuPc = "insert"
  /\ FirstClassified(gpuBufferAllocs) = 0
  /\ FirstClassified(gpuBufferParams) = 0
  /\ gpuPc' = "done"
  /\ UNCHANGED <<gpuFunc, gpuOrig, gpuBufferAllocs, gpuBufferParams, gpuFailed,
                 gpuDiags>>
  /\ GpuUnchanged

\* ---- inputs
\* number of memref-using ops in the function body
MaxGpuOps == 2

\* the ops of a function body that use a buffer
GpuUseKinds ==
  {GOp(o, b, l, "use") : o \in {"memref.load", "memref.store"}, b \in {"p0", "g"},
                         l \in {"host", "gpuA", "gpuB", "launch"}}
    \cup {GOp("func.call", b, "gpuA", "use") : b \in {"p0", "g"}}
    \cup {GOp("memref.atomic_rmw", b, "gpuA", "use") : b \in {"p0"}}
    \cup {GOp("memref.copy", b, "host", r) : b \in {"p0", "g"}, r \in {"source", "target"}}
    \cup {GOp(o, "a", l, "use") : o \in {"memref.load", "memref.store"},
                                  l \in {"host", "gpuA", "gpuB"}}
    \cup {GOp("memref.load", "x", "gpuA", "use")}

\* the ops defining the buffers other than the parameter, for the buffers used
Defs(uses, ret) ==
  LET used == {uses[i].buf : i \in 1..Len(uses)} \cup {ret}
      def(b) == IF b \in used THEN <<GOp(Producer(b), b, "host", "def")>> ELSE <<>>
  IN def("g") \o def("a") \o def("x")

\* a function: the defining ops, the uses, the terminator (returning ret)
GpuFunc(accessible, uses, ret) ==
  [gpuAccessible |-> accessible,
   ops |-> Defs(uses, ret) \o uses \o <<GOp("func.return", ret, "host", "use")>>]

GpuIdle ==
  /\ gpuFunc = GpuFunc(FALSE, <<>>, "none")
  /\ gpuOrig = gpuFunc
  /\ gpuPc = "idle"
  /\ gpuBufferAllocs = <<>> /\ gpuBufferParams = <<>>
  /\ gpuFailed = FALSE /\ gpuDiags = {}

GpuInit ==
  /\ \E accessible \in BOOLEAN, uses \in SeqsUpTo(GpuUseKinds, MaxGpuOps),
        ret \in {"none", "p0", "g"} :
       gpuFunc = GpuFunc(accessible, uses, ret)
  /\ gpuOrig = gpuFunc
  /\ gpuPc = "collect"
  /\ gpuBufferAllocs = <<>> /\ gpuBufferParams = <<>>
  /\ gpuFailed = FALSE /\ gpuDiags = {}

GpuNext ==
  \/ Collect \/ ClassifyAlloc \/ ClassifyParam \/ StartInsert
  \/ InsertForAlloc \/ InsertForParam \/ GpuDone

(***************************************************************************)
(* TileParallelLoopsForGPUPass and ParallelLoopGPUMappingPass              *)
(* The function is a tree of ops; index values are expression trees that   *)
(* evaluate to two's complement integers of IndexWidth bits.               *)
(***************************************************************************)
IndexWidth == 4
IndexMod == 2 ^ IndexWidth
MaxIndex == (IndexMod \div 2) - 1
IdxWrap(n) == ((n + IndexMod \div 2) % IndexMod) - IndexMod \div 2
IdxUnsigned(n) == n % IndexMod

\* an index-typed SSA value
IdxOp(k, v, args) == [k |-> k, v |-> v, args |-> args]
ConstantIndexOp(n) == IdxOp("const", n, <<>>)
\* a value that no constant op defines; v is the value it has at run time
DynValue(n) == IdxOp("dyn", n, <<>>)
\* the i-th induction variable of the enclosing scf.parallel
BlockArgument(i) == IdxOp("arg", i, <<>>)
\* the i-th result of the GPUSuggestBlockSizeOp created by the rewrite
SuggestBlockSize(i) == IdxOp("localSize", i, <<>>)
CeilDivUIOp(a, b) == IdxOp("ceildivui", 0, <<a, b>>)
MulIOp(a, b) == IdxOp("muli", 0, <<a, b>>)
AddIOp(a, b) == IdxOp("addi", 0, <<a, b>>)
CmpSltOp(a, b) == IdxOp("slt", 0, <<a, b>>)
AndIOp(a, b) == IdxOp("andi", 0, <<a, b>>)
isConstantIntValue(x, n) == x.k = "const" /\ x.v = n

\* the value of an index expression, given the induction variables of the
\* enclosing loop and the block sizes the device suggested
RECURSIVE IdxEval(_, _, _)
IdxEval(e, ivs, ls) ==
  CASE e.k = "const" -> IdxWrap(e.v)
    [] e.k = "dyn" -> IdxWrap(e.v)
    [] e.k = "arg" -> ivs[e.v]
    [] e.k = "localSize" -> ls[e.v]
    [] e.k = "ceildivui" ->
         IdxWrap((IdxUnsigned(IdxEval(e.args[1], ivs, ls))
                  + IdxUnsigned(IdxEval(e.args[2], ivs, ls)) - 1)
                 \div IdxUnsigned(IdxEval(e.args[2], ivs, ls)))
    [] e.k = "muli" ->
         IdxWrap(IdxEval(e.args[1], ivs, ls) * IdxEval(e.args[2], ivs, ls))
    [] e.k = "addi" ->
         IdxWrap(IdxEval(e.args[1], ivs, ls) + IdxEval(e.args[2], ivs, ls))
    [] e.k = "slt" ->
         IF IdxEval(e.args[1], ivs, ls) < IdxEval(e.args[2], ivs, ls)
         THEN 1 ELSE 0
    [] e.k = "andi" ->
         IF IdxEval(e.args[1], ivs, ls) = 1 /\ IdxEval(e.args[2], ivs, ls) = 1
         THEN 1 ELSE 0

\* ops: a kind, the attributes and operands of the kind, and the nested ops
TileOp(kind, a, ops) == [kind |-> kind, a |-> a, body |-> ops]
\* mapping = <<>> stands for a loop without the mapping attr
ParallelOp(lbs, ubs, steps, reduce, mapping, ops) ==
  TileOp("scf.parallel",
         [lb |-> lbs, ub |-> ubs, step |-> steps, reduce |-> reduce,
          mapping |-> mapping], ops)
IfOp(cond, ops) == TileOp("scf.if", [cond |-> cond], ops)
EnvironmentRegionOp(gpu, ops) == TileOp("env", [gpu |-> gpu], ops)
\* an op of a loop body that uses the induction variables
UseOp(idx) == TileOp("use", [idx |-> idx], <<>>)

RECURSIVE OpAt(_, _)
OpAt(ops, path) ==
  IF Len(path) = 1 THEN ops[path[1]]
  ELSE OpAt(ops[path[1]].body, Tail(path))
RECURSIVE OpPaths(_)
OpPaths(ops) ==
  UNION {{<<i>>} \cup {<<i>> \o p : p \in OpPaths(ops[i].body)} :
         i \in DOMAIN ops}
RECURSIVE ReplaceOpAt(_, _, _)
ReplaceOpAt(ops, path, new) ==
  [ops EXCEPT ![path[1]] =
     IF Len(path) = 1 THEN new
     ELSE [ops[path[1]] EXCEPT
             !.body = ReplaceOpAt(ops[path[1]].body, Tail(path), new)]]
Ancestors(path) == {SubSeq(path, 1, n) : n \in 1..(Len(path) - 1)}
hasParentOfType(ops, path, kind) ==
  \E q \in Ancestors(path) : OpAt(ops, q).kind = kind
\* op->getParentOfType<EnvironmentRegionOp>() exists and is a gpu region
inGpuRegion(ops, path) ==
  /\ hasParentOfType(ops, path, "env")
  /\ \E q \in Ancestors(path) :
       /\ OpAt(ops, q).kind = "env"
       /\ OpAt(ops, q).a.gpu
       /\ \A r \in Ancestors(path) :
            OpAt(ops, r).kind = "env" => Len(r) <= Len(q)

getProcessor(val) ==
  IF val >= 6 THEN "Sequential"
  ELSE <<"BlockX", "BlockY", "BlockZ", "ThreadX", "ThreadY", "ThreadZ">>[val + 1]

maxLoops == 3
oldLoopsCount(op) == Len(op.a.step)
\* the number of dimensions, among the first maxLoops, that start at the
\* constant 0 and step by the constant 1
numLoopsOf(op) ==
  Cardinality({i \in 1..oldLoopsCount(op) :
                 /\ i <= maxLoops
                 /\ isConstantIntValue(op.a.lb[i], 0)
                 /\ isConstantIntValue(op.a.step[i], 1)})

\* the early returns of TileParallelOp::matchAndRewrite
TileMatch(ops, path) ==
  /\ OpAt(ops, path).kind = "scf.parallel"
  /\ inGpuRegion(ops, path)
  /\ ~hasParentOfType(ops, path, "scf.parallel")
  /\ OpAt(ops, path).a.mapping = <<>>
  /\ ~OpAt(ops, path).a.reduce
  /\ numLoopsOf(OpAt(ops, path)) > 0

globalSize(op, i) ==
  IF i <= numLoopsOf(op) THEN op.a.ub[i] ELSE ConstantIndexOp(1)
newLowerBounds(op) ==
  [i \in 1..(2 * maxLoops) |-> ConstantIndexOp(0)]
    \o SubSeq(op.a.lb, numLoopsOf(op) + 1, oldLoopsCount(op))
newUpperBounds(op) ==
  [i \in 1..maxLoops |->
     IF i <= numLoopsOf(op)
     THEN CeilDivUIOp(op.a.ub[i], SuggestBlockSize(i))
     ELSE ConstantIndexOp(1)]
    \o [i \in 1..maxLoops |->
          IF i <= numLoopsOf(op) THEN SuggestBlockSize(i)
          ELSE ConstantIndexOp(1)]
    \o SubSeq(op.a.ub, numLoopsOf(op) + 1, oldLoopsCount(op))
newSteps(op) ==
  [i \in 1..(2 * maxLoops) |-> ConstantIndexOp(1)]
    \o SubSeq(op.a.step, numLoopsOf(op) + 1, oldLoopsCount(op))
\* gridId * blockSize + blockId of dimension i
tileVal(i) ==
  AddIOp(MulIOp(BlockArgument(i), SuggestBlockSize(i)),
         BlockArgument(i + maxLoops))
argMapping(op) ==
  [i \in 1..oldLoopsCount(op) |->
     IF i <= numLoopsOf(op) THEN tileVal(i)
     ELSE BlockArgument(i + 2 * maxLoops - numLoopsOf(op))]
\* a guard that tests the first dimension only
inBoundsFirstAxis(op, k) == CmpSltOp(tileVal(1), globalSize(op, 1))
\* the conjunction of val < gridSize over the dimensions 1..k
RECURSIVE inBounds(_, _)
inBounds(op, k) ==
  IF k = 1 THEN CmpSltOp(tileVal(1), globalSize(op, 1))
  ELSE AndIOp(inBounds(op, k - 1), CmpSltOp(tileVal(k), globalSize(op, k)))

RECURSIVE SubstArgs(_, _)
SubstArgs(e, m) ==
  IF e.k = "arg" THEN m[e.v]
  ELSE [e EXCEPT !.args = [j \in DOMAIN e.args |-> SubstArgs(e.args[j], m)]]
\* rewriter.mergeBlocks: the ops of the old body, the block arguments of the
\* old loop replaced by argMapping; a nested loop binds its own arguments
RECURSIVE mergeBlocks(_, _)
mergeBlocks(ops, m) ==
  [j \in DOMAIN ops |->
     CASE ops[j].kind = "use" ->
            UseOp([t \in DOMAIN ops[j].a.idx |-> SubstArgs(ops[j].a.idx[t], m)])
       [] ops[j].kind = "scf.if" ->
            IfOp(SubstArgs(ops[j].a.cond, m), mergeBlocks(ops[j].body, m))
       [] OTHER -> ops[j]]

\* the loop that replaces op
TileParallelOp(op) ==
  ParallelOp(newLowerBounds(op), newUpperBounds(op), newSteps(op), FALSE,
             [i \in 1..Len(newSteps(op)) |-> getProcessor(i - 1)],
             <<IfOp(inBounds(op, numLoopsOf(op)),
                    mergeBlocks(op.body, argMapping(op)))>>)

\* ParallelLoopGPUMappingPass: the loops in the first block of a gpu region
RECURSIVE MappingWalk(_, _)
MappingWalk(ops, front) ==
  [j \in DOMAIN ops |->
     IF ops[j].kind = "scf.parallel" /\ front /\ ops[j].a.mapping = <<>>
     THEN [ops[j] EXCEPT
             !.a.mapping = [i \in 1..oldLoopsCount(ops[j]) |-> getProcessor(i - 1)],
             !.body = MappingWalk(ops[j].body, FALSE)]
     ELSE [ops[j] EXCEPT
             !.body = MappingWalk(ops[j].body,
                                  ops[j].kind = "env" /\ ops[j].a.gpu)]]

\* ---- execution of a loop
RECURSIVE Product(_)
Product(ranges) ==
  IF ranges = <<>> THEN {<<>>}
  ELSE {<<x>> \o t : x \in Head(ranges), t \in Product(Tail(ranges))}
DimRange(l, u, s) == {x \in l..(u - 1) : (x - l) % s = 0}
IterPoints(op, ls) ==
  Product([i \in 1..oldLoopsCount(op) |->
             DimRange(IdxEval(op.a.lb[i], <<>>, ls),
                      IdxEval(op.a.ub[i], <<>>, ls),
                      IdxEval(op.a.step[i], <<>>, ls))])
\* the index tuples with which the using ops of a block run
RECURSIVE BodyRuns(_, _, _)
BodyRuns(ops, ivs, ls) ==
  UNION {CASE ops[j].kind = "use" ->
                {[t \in DOMAIN ops[j].a.idx |-> IdxEval(ops[j].a.idx[t], ivs, ls)]}
           [] ops[j].kind = "scf.if" ->
                IF IdxEval(ops[j].a.cond, ivs, ls) = 1
                THEN BodyRuns(ops[j].body, ivs, ls) ELSE {}
           [] OTHER -> {} : j \in DOMAIN ops}
LoopRuns(op, ls) ==
  UNION {{<<pt, t>> : t \in BodyRuns(op.body, pt, ls)} : pt \in IterPoints(op, ls)}

TileFrame ==
  UNCHANGED <<plierVars, inlVars, gpuVars, castVars,
              fiVars,
              argVars,
              cfVars,
              stdVars,
              truncVars,
              fpVars,
              resVars,
              dceVars,
              exVars, flatVars, spvVars, modVars>>

\* one application of TileParallelOp by the greedy driver
TileRewrite ==
  /\ tilePc = "tile"
  /\ \E p \in OpPaths(tileFunc) :
       /\ TileMatch(tileFunc, p)
       /\ tileFunc' = ReplaceOpAt(tileFunc, p, TileParallelOp(OpAt(tileFunc, p)))
  /\ UNCHANGED <<tileOrig, tilePc, tileLocal, tileRuns>>
  /\ TileFrame

\* the greedy driver stops: the pattern matches nowhere
TileGreedyStop ==
  /\ tilePc = "tile"
  /\ \A p \in OpPaths(tileFunc) : ~TileMatch(tileFunc, p)
  /\ tilePc' = "map"
  /\ UNCHANGED <<tileFunc, tileOrig, tileLocal, tileRuns>>
  /\ TileFrame

ParallelLoopGPUMapping ==
  /\ tilePc = "map"
  /\ tileFunc' = MappingWalk(tileFunc, FALSE)
  /\ tilePc' = "mapped"
  /\ UNCHANGED <<tileOrig, tileLocal, tileRuns>>
  /\ TileFrame

\* the loop of the gpu region runs, with the block sizes the device suggests
MaxTrip == 3
MaxBlock == 3
TripCounts == (0..MaxTrip) \cup {MaxIndex}
BlockSizes == (1..MaxBlock) \cup {MaxIndex}
TheLoop(f) == OpAt(f, <<1, 1>>)
RunLoop ==
  /\ tilePc = "mapped"
  /\ \E ls \in [1..maxLoops -> BlockSizes] :
       /\ \A i \in 1..maxLoops :
            i > numLoopsOf(TheLoop(tileOrig)) => ls[i] = 1
       /\ tileLocal' = ls
       /\ tileRuns' = LoopRuns(TheLoop(tileFunc), ls)
  /\ tilePc' = "ran"
  /\ UNCHANGED <<tileFunc, tileOrig>>
  /\ TileFrame

TileIdle ==
  /\ tileFunc = <<>> /\ tileOrig = <<>> /\ tilePc = "idle"
  /\ tileLocal = <<>> /\ tileRuns = {}

\* ---- the functions given to the passes
LowerBounds == {ConstantIndexOp(0), ConstantIndexOp(1), DynValue(0)}
Steps == {ConstantIndexOp(1), ConstantIndexOp(2)}
\* the loops of n dimensions, upper bounds drawn from ubs
Loops(n, lbs, ubs, reduces, mappings, ops) ==
        {ParallelOp(l, u, s, r, m, ops) :
            l \in [1..n -> lbs], u \in ubs, s \in [1..n -> Steps],
            r \in reduces,
            m \in {IF mapped THEN [i \in 1..n |-> getProcessor(i - 1)] ELSE <<>> :
                     mapped \in mappings}}
\* run-time trip counts; distinct values of unknown size
TripBounds(n) == [1..n -> {DynValue(u) : u \in TripCounts}]
DynBounds(n) == {[i \in 1..n |-> DynValue(i)]}
BodyOf(n) == <<UseOp([i \in 1..n |-> BlockArgument(i)])>>

\* a loop with run-time trip counts, alone in a gpu region
TileRunInit ==
  /\ \E n \in 1..2 :
       \E loop \in Loops(n, {ConstantIndexOp(0), ConstantIndexOp(1)},
                         TripBounds(n), {FALSE}, {FALSE}, BodyOf(n)) :
         tileFunc = <<EnvironmentRegionOp(TRUE, <<loop>>)>>
  /\ tileOrig = tileFunc
  /\ tilePc = "tile"
  /\ tileLocal = <<>>
  /\ tileRuns = {}
TileRunNext == TileRewrite \/ TileGreedyStop \/ ParallelLoopGPUMapping \/ RunLoop

\* loops of one to four dimensions in a region, and loops nested in a
\* region, in an scf.if or in another loop
InnerLoops ==
  Loops(1, {ConstantIndexOp(0), ConstantIndexOp(1)}, DynBounds(1),
        BOOLEAN, {FALSE}, BodyOf(1))
NestedBodies ==
  {BodyOf(1)} \cup {<<l>> : l \in InnerLoops}
    \cup {<<IfOp(DynValue(0), <<l>>)>> : l \in InnerLoops}
RegionOps ==
  UNION {Loops(n, LowerBounds, DynBounds(n), BOOLEAN, BOOLEAN, BodyOf(n)) :
           n \in 1..(maxLoops + 1)}
    \cup UNION {Loops(1, {ConstantIndexOp(0), ConstantIndexOp(1)},
                      DynBounds(1), BOOLEAN, {FALSE}, b) : b \in NestedBodies}
    \cup {IfOp(DynValue(0), <<l>>) : l \in InnerLoops}
TileInit ==
  /\ \E gpu \in BOOLEAN, op \in RegionOps :
       tileFunc = <<EnvironmentRegionOp(gpu, <<op>>)>>
  /\ tileOrig = tileFunc
  /\ tilePc = "tile"
  /\ tileLocal = <<>>
  /\ tileRuns = {}
TileNext == TileRewrite \/ TileGreedyStop \/ ParallelLoopGPUMapping

(***************************************************************************)
(* GPUExPass: ExpandLaunchOp, ExpandAllocOp, ExpandDeallocOp and           *)
(* ExpandSuggestBlockSizeOp, applied greedily in any order to the ops of a *)
(* function.  The ops are listed in the order of the function's first      *)
(* block; an op nested in an environment region bears that region's device.*)
(***************************************************************************)
\* the device of a gpu region; "none" for an op outside every gpu region
ExDevices == {"none", "gpu0", "gpu1"}
\* stream: the stream operand (0: none); a create-stream op defines stream
ExOp(name, device, stream, found) ==
  [op |-> name, device |-> device, stream |-> stream, found |-> found]
CreateGpuStreamOp(device, id) == ExOp("create_gpu_stream", device, id, TRUE)
DestroyGpuStreamOp(device, id) == ExOp("destroy_gpu_stream", device, id, TRUE)
ExPositions(ops, name) == {i \in DOMAIN ops : ops[i].op = name}

\* the stream getGpuStream returns for an op of the given device: the first
\* create-stream of that device in the block, else a new one
ExStreams(ops) == {ops[i].stream : i \in ExPositions(ops, "create_gpu_stream")}
ExFound(ops, device) ==
  {i \in ExPositions(ops, "create_gpu_stream") : ops[i].device = device}
ExFresh(ops) == Cardinality(ExStreams(ops)) + 1
\* a getGpuStream that never looks for an existing stream
getGpuStreamAlwaysNew(ops, device) == ExFresh(ops)
getGpuStream(ops, device) ==
  IF ExFound(ops, device) # {}
  THEN ops[CHOOSE i \in ExFound(ops, device) :
             \A j \in ExFound(ops, device) : i <= j].stream
  ELSE ExFresh(ops)
\* the block after getGpuStream, with op i replaced by the ops new: a new
\* stream is created at the start of the block and destroyed before the
\* terminator
ExReplace(ops, i, new, device, stream) ==
  IF stream \in ExStreams(ops)
  THEN SubSeq(ops, 1, i - 1) \o new \o SubSeq(ops, i + 1, Len(ops))
  ELSE <<CreateGpuStreamOp(device, stream)>>
         \o SubSeq(ops, 1, i - 1) \o new \o SubSeq(ops, i + 1, Len(ops) - 1)
         \o <<DestroyGpuStreamOp(device, stream), ops[Len(ops)]>>

\* createGpuKernelLoad: load-module, get-kernel, then the op built by func
createGpuKernelLoad(ops, i, name, stream) ==
  ExReplace(ops, i,
            <<ExOp("load_gpu_module", ops[i].device, stream, TRUE),
              ExOp("get_gpu_kernel", ops[i].device, 0, TRUE),
              ExOp(name, ops[i].device, stream, TRUE)>>,
            ops[i].device, stream)
\* getGpuStream fails in a function whose body is not a single block
ExMatches(f, i, name) ==
  /\ f.ops[i].op = name
  /\ f.single
ExFrame ==
  UNCHANGED <<plierVars, inlVars, gpuVars, castVars,
              fiVars,
              argVars,
              cfVars,
              stdVars,
              truncVars,
              fpVars,
              resVars,
              dceVars,
              tileVars, flatVars, spvVars, modVars>>

ExpandLaunchOp ==
  /\ exPc = "expand"
  /\ \E i \in DOMAIN exFunc.ops :
       /\ ExMatches(exFunc, i, "gpu.launch_func")
       /\ exFunc.ops[i].found
       /\ exFunc' = [exFunc EXCEPT !.ops =
            createGpuKernelLoad(exFunc.ops, i, "launch_gpu_kernel",
                                getGpuStream(exFunc.ops, exFunc.ops[i].device))]
  /\ UNCHANGED exPc
  /\ ExFrame

ExpandSuggestBlockSizeOp ==
  /\ exPc = "expand"
  /\ \E i \in DOMAIN exFunc.ops :
       /\ ExMatches(exFunc, i, "suggest_block_size_ref")
       /\ exFunc.ops[i].found
       /\ exFunc' = [exFunc EXCEPT !.ops =
            createGpuKernelLoad(exFunc.ops, i, "suggest_block_size",
                                getGpuStream(exFunc.ops, exFunc.ops[i].device))]
  /\ UNCHANGED exPc
  /\ ExFrame

ExpandAllocOp ==
  /\ exPc = "expand"
  /\ \E i \in DOMAIN exFunc.ops :
       /\ ExMatches(exFunc, i, "gpu.alloc")
       /\ exFunc' = [exFunc EXCEPT !.ops =
            ExReplace(exFunc.ops, i,
                      <<ExOp("gpu_alloc", exFunc.ops[i].device,
                             getGpuStream(exFunc.ops, exFunc.ops[i].device), TRUE)>>,
                      exFunc.ops[i].device,
                      getGpuStream(exFunc.ops, exFunc.ops[i].device))]
  /\ UNCHANGED exPc
  /\ ExFrame

ExpandDeallocOp ==
  /\ exPc = "expand"
  /\ \E i \in DOMAIN exFunc.ops :
       /\ ExMatches(exFunc, i, "gpu.dealloc")
       /\ exFunc' = [exFunc EXCEPT !.ops =
            ExReplace(exFunc.ops, i,
                      <<ExOp("gpu_dealloc", exFunc.ops[i].device,
                             getGpuStream(exFunc.ops, exFunc.ops[i].device), TRUE)>>,
                      exFunc.ops[i].device,
                      getGpuStream(exFunc.ops, exFunc.ops[i].device))]
  /\ UNCHANGED exPc
  /\ ExFrame

\* the greedy driver stops: no pattern applies to any op
ExCanExpand(f, i) ==
  \/ ExMatches(f, i, "gpu.alloc")
  \/ ExMatches(f, i, "gpu.dealloc")
  \/ ExMatches(f, i, "gpu.launch_func") /\ f.ops[i].found
  \/ ExMatches(f, i, "suggest_block_size_ref") /\ f.ops[i].found
ExDone ==
  /\ exPc = "expand"
  /\ \A i \in DOMAIN exFunc.ops : ~ExCanExpand(exFunc, i)
  /\ exPc' = "done"
  /\ UNCHANGED exFunc
  /\ ExFrame

ExIdle == exFunc = [single |-> TRUE, ops |-> <<>>] /\ exPc = "idle"

\* the functions given to the pass: launches (whose kernel is found in the
\* module, or not), block-size queries, allocs and deallocs, then the return
MaxExOps == 3
ExInputOps ==
  {ExOp(name, d, 0, TRUE) :
     name \in {"gpu.launch_func", "gpu.alloc", "gpu.dealloc"}, d \in ExDevices}
    \cup {ExOp("suggest_block_size_ref", "gpu0", 0, TRUE),
          ExOp("gpu.launch_func", "gpu0", 0, FALSE)}
ExInit ==
  /\ \E single \in BOOLEAN, ops \in SeqsUpTo(ExInputOps, MaxExOps) :
       /\ ops # <<>>
       /\ exFunc = [single |-> single,
                    ops |-> Append(ops, ExOp("func.return", "none", 0, TRUE))]
  /\ exPc = "expand"
ExNext ==
  \/ ExpandLaunchOp \/ ExpandSuggestBlockSizeOp \/ ExpandAllocOp
  \/ ExpandDeallocOp \/ ExDone

(***************************************************************************)
(* UnstrideMemrefsPass: FlattenLoad, FlattenStore and FlattenSubview.      *)
(* The ops are listed in program order; each op has an id, the id of the   *)
(* op that defines its memref operand, and the type of its memref result.  *)
(***************************************************************************)
MemRefType(rank, identity) == [rank |-> rank, identity |-> identity]
NoMemRef == [rank |-> 0 - 1, identity |-> TRUE]
\* memref<?xT>: the result type of getFlatMemref
FlatMemRefType == MemRefType(1, TRUE)
\* the type the builder infers for a subview of a flat memref at a dynamic
\* offset: rank 1, strided layout with that offset
FlatSubViewType == MemRefType(1, FALSE)
FlatOp(id, name, src, type, inKernel, created) ==
  [id |-> id, op |-> name, src |-> src, type |-> type,
   inKernel |-> inKernel, created |-> created]
FlatPos(ops, id) == CHOOSE i \in DOMAIN ops : ops[i].id = id
typeOf(ops, id) == ops[FlatPos(ops, id)].type
FlatFresh(ops) ==
  1 + CHOOSE m \in {ops[i].id : i \in DOMAIN ops} :
        \A i \in DOMAIN ops : ops[i].id <= m

\* a needFlatten that looks at the rank only
needFlattenRankOnly(type) == type.rank > 1
needFlatten(type) == ~type.identity \/ type.rank > 1

\* the ops getFlatIndex creates to read the sizes or strides of the memref
getFlatIndex(ops, src, inKernel) ==
  IF typeOf(ops, src).rank = 0 THEN <<>>
  ELSE IF typeOf(ops, src).identity
  THEN IF typeOf(ops, src).rank > 1
       THEN <<FlatOp(FlatFresh(ops), "memref.dim", src, NoMemRef, inKernel, TRUE)>>
       ELSE <<>>
  ELSE <<FlatOp(FlatFresh(ops), "extract_memref_metadata", src, NoMemRef,
                inKernel, TRUE)>>
getFlatMemref(ops, src, inKernel) ==
  FlatOp(FlatFresh(ops) + 1, "memref.reinterpret_cast", src, FlatMemRefType,
         inKernel, TRUE)
\* setInsertionPointToStart(builder, memref): the helper ops go right after
\* the op that defines the memref; op i is replaced by the ops new
FlatRewrite(ops, i, new) ==
  SubSeq(ops, 1, FlatPos(ops, ops[i].src))
    \o getFlatIndex(ops, ops[i].src, ops[FlatPos(ops, ops[i].src)].inKernel)
    \o <<getFlatMemref(ops, ops[i].src, ops[FlatPos(ops, ops[i].src)].inKernel)>>
    \o SubSeq(ops, FlatPos(ops, ops[i].src) + 1, i - 1)
    \o new
    \o SubSeq(ops, i + 1, Len(ops))

\* the early returns shared by the three patterns
FlatMatch(ops, i, name) ==
  /\ ops[i].op = name
  /\ ops[i].inKernel
  /\ needFlatten(typeOf(ops, ops[i].src))

FlatFrame ==
  UNCHANGED <<plierVars, inlVars, gpuVars, castVars,
              fiVars,
              argVars,
              cfVars,
              stdVars,
              truncVars,
              fpVars,
              resVars,
              dceVars,
              tileVars, exVars, spvVars, modVars>>

FlattenLoad ==
  /\ flatPc = "run"
  /\ \E i \in DOMAIN flatOps :
       /\ FlatMatch(flatOps, i, "memref.load")
       /\ flatOps' = FlatRewrite(flatOps, i,
            <<FlatOp(flatOps[i].id, "memref.load", FlatFresh(flatOps) + 1,
                     NoMemRef, TRUE, TRUE)>>)
  /\ UNCHANGED <<flatPc, flatRun, flatFirst>>
  /\ FlatFrame

FlattenStore ==
  /\ flatPc = "run"
  /\ \E i \in DOMAIN flatOps :
       /\ FlatMatch(flatOps, i, "memref.store")
       /\ flatOps' = FlatRewrite(flatOps, i,
            <<FlatOp(flatOps[i].id, "memref.store", FlatFresh(flatOps) + 1,
                     NoMemRef, TRUE, TRUE)>>)
  /\ UNCHANGED <<flatPc, flatRun, flatFirst>>
  /\ FlatFrame

\* the subview is replaced by a subview of the flat memref and a
\* reinterpret_cast of that to the result type of the old subview, which
\* takes over its uses
FlattenSubview ==
  /\ flatPc = "run"
  /\ \E i \in DOMAIN flatOps :
       /\ FlatMatch(flatOps, i, "memref.subview")
       /\ flatOps' = FlatRewrite(flatOps, i,
            <<FlatOp(FlatFresh(flatOps) + 2, "memref.subview",
                     FlatFresh(flatOps) + 1, FlatSubViewType, TRUE, TRUE),
              FlatOp(flatOps[i].id, "memref.reinterpret_cast",
                     FlatFresh(flatOps) + 2, flatOps[i].type, TRUE, TRUE)>>)
  /\ UNCHANGED <<flatPc, flatRun, flatFirst>>
  /\ FlatFrame

FlatNames == {"memref.load", "memref.store", "memref.subview"}
\* the greedy driver stops: no pattern applies to any op
FlatStop ==
  /\ flatPc = "run"
  /\ \A i \in DOMAIN flatOps : \A name \in FlatNames : ~FlatMatch(flatOps, i, name)
  /\ flatPc' = "done"
  /\ UNCHANGED <<flatOps, flatRun, flatFirst>>
  /\ FlatFrame

\* the pass is run a second time on its own result
FlatRerun ==
  /\ flatPc = "done"
  /\ flatRun = 1
  /\ flatRun' = 2
  /\ flatFirst' = flatOps
  /\ flatPc' = "run"
  /\ UNCHANGED flatOps
  /\ FlatFrame

FlatIdle ==
  flatOps = <<>> /\ flatPc = "idle" /\ flatRun = 0 /\ flatFirst = <<>>

\* the functions given to the pass: a memref defined outside the kernel, then
\* loads, stores and subviews of it or of the result of an earlier subview
MaxFlatOps == 2
MemRefRanks == 0..2
MemRefTypes == {MemRefType(r, l) : r \in MemRefRanks, l \in BOOLEAN}
\* the ops that can follow ops: the memref operand is defined before the op,
\* and an op outside the kernel does not use a value defined inside it
FlatNextOps(ops) ==
  {FlatOp(FlatFresh(ops), name, ops[s].id, NoMemRef, k, FALSE) :
     name \in {"memref.load", "memref.store"},
     s \in {j \in DOMAIN ops : ops[j].type # NoMemRef},
     k \in BOOLEAN}
  \cup {FlatOp(FlatFresh(ops), "memref.subview", ops[s].id, t, TRUE, FALSE) :
          s \in {j \in DOMAIN ops : ops[j].type # NoMemRef},
          t \in MemRefTypes}
FlatWellFormed(ops) ==
  \A i \in DOMAIN ops :
    /\ ops[i].src # 0 =>
         /\ ops[FlatPos(ops, ops[i].src)].inKernel => ops[i].inKernel
         /\ ops[i].type # NoMemRef =>
              ops[i].type.rank <= typeOf(ops, ops[i].src).rank
RECURSIVE FlatFuncs(_, _)
FlatFuncs(ops, n) ==
  IF n = 0 THEN {ops}
  ELSE {ops} \cup UNION {FlatFuncs(Append(ops, o), n - 1) : o \in FlatNextOps(ops)}
FlatInit ==
  /\ \E t \in MemRefTypes :
       \E ops \in FlatFuncs(<<FlatOp(1, "memref.alloc", 0, t, FALSE, FALSE)>>,
                            MaxFlatOps) :
         /\ Len(ops) > 1
         /\ FlatWellFormed(ops)
         /\ flatOps = ops
  /\ flatPc = "run"
  /\ flatRun = 1
  /\ flatFirst = <<>>
FlatNext == FlattenLoad \/ FlattenStore \/ FlattenSubview \/ FlatStop \/ FlatRerun

(***************************************************************************)
(* The SPIR-V conversion of memref.load and memref.store                   *)
(***************************************************************************)
\* element types: integers and floats of a bit width, vectors of those (with
\* a static number of elements, or 0 for a shape that is not static), index
ScalarElem(kind, width) == [kind |-> kind, width |-> width, elems |-> 1]
VectorElem(kind, width, n) == [kind |-> "vector", width |-> width, elems |-> n,
                               of |-> kind]
IndexElem == [kind |-> "index", width |-> 0, elems |-> 1]
NoSize == 0 - 1
\* llvm::None is NoSize
getTypeSize(type) ==
  CASE type.kind \in {"int", "float"} -> type.width \div 8
    [] type.kind = "vector" ->
         IF type.elems = 0 THEN NoSize ELSE type.elems * (type.width \div 8)
    [] OTHER -> NoSize

SpvOp(name, alignment) == [op |-> name, alignment |-> alignment]
\* no pattern has been applied yet
SpvPending == [ok |-> FALSE, ops |-> <<SpvOp("pending", 0)>>]
SpvFailure == [ok |-> FALSE, ops |-> <<>>]
SpvSuccess(ops) == [ok |-> TRUE, ops |-> ops]
ConvertLoadOp(op) ==
  IF getTypeSize(op.elem) = NoSize THEN SpvFailure
  ELSE IF op.rank = 0
  THEN SpvSuccess(<<SpvOp("spirv.Load Aligned", getTypeSize(op.elem))>>)
  ELSE IF op.rank = 1
  THEN SpvSuccess(<<SpvOp("spirv.InBoundsPtrAccessChain", 0),
                    SpvOp("spirv.Load Aligned", getTypeSize(op.elem))>>)
  ELSE SpvFailure
ConvertStoreOp(op) ==
  IF op.rank # 1 THEN SpvFailure
  ELSE IF getTypeSize(op.elem) = NoSize THEN SpvFailure
  ELSE SpvSuccess(<<SpvOp("spirv.InBoundsPtrAccessChain", 0),
                    SpvOp("spirv.Store Aligned", getTypeSize(op.elem))>>)

SpvFrame ==
  UNCHANGED <<plierVars, inlVars, gpuVars, castVars,
              fiVars,
              argVars,
              cfVars,
              stdVars,
              truncVars,
              fpVars,
              resVars,
              dceVars,
              tileVars, exVars, flatVars, modVars>>
NoSpvOp == [op |-> "none", rank |-> 0, elem |-> IndexElem]
ApplyConvertLoadOp ==
  /\ spvOp.op = "memref.load"
  /\ spvOut = SpvPending
  /\ spvOut' = ConvertLoadOp(spvOp)
  /\ UNCHANGED spvOp
  /\ SpvFrame
ApplyConvertStoreOp ==
  /\ spvOp.op = "memref.store"
  /\ spvOut = SpvPending
  /\ spvOut' = ConvertStoreOp(spvOp)
  /\ UNCHANGED spvOp
  /\ SpvFrame

SpvIdle == spvOp = NoSpvOp /\ spvOut = SpvPending

\* the loads and stores given to the patterns
MaxRank == 3
MaxVectorLen == 4
SpvElemTypes ==
  {ScalarElem("int", w) : w \in IntWidths}
    \cup {ScalarElem("float", w) : w \in FloatWidths}
    \cup {VectorElem("int", w, n) : w \in IntWidths, n \in 0..MaxVectorLen}
    \cup {VectorElem("float", w, n) : w \in FloatWidths, n \in 0..MaxVectorLen}
    \cup {IndexElem}
SpvInit ==
  /\ \E name \in {"memref.load", "memref.store"}, r \in 0..MaxRank,
        e \in SpvElemTypes :
       spvOp = [op |-> name, rank |-> r, elem |-> e]
  /\ spvOut = SpvPending
SpvNext == ApplyConvertLoadOp \/ ApplyConvertStoreOp

(***************************************************************************)
(* GpuToGpuRuntime.cpp: ConvertAllReduceOp and ConvertSubgroupReduceOp     *)
(***************************************************************************)
\* mlir::gpu::AllReduceOperation
ReduceTypes == {"ADD", "AND", "MAX", "MIN", "MUL", "OR", "XOR"}
\* gpu.all_reduce may come without the attribute, with a body instead
NoReduceType == "none"

\* a gpu.all_reduce or gpu.subgroup_reduce of a value of type elem
ReduceOp(name, kind, elem) ==
  [op |-> name, rank |-> 0, elem |-> elem, kind |-> kind]

isIntOrFloat(type) == type.kind \in {"int", "float"}

\* genReduceOp<SpirvOp, Subgroup>: the op that replaces srcOp
genReduceOp(spirvOp, subgroup) ==
  [op |-> spirvOp, scope |-> IF subgroup THEN "Subgroup" ELSE "Workgroup",
   groupOp |-> "Reduce"]

\* the handlers table of both patterns: the float and the integer op of a
\* reduction kind, <<>> for a kind the table does not have
ReduceHandlers(kind) ==
  IF kind = "ADD"
    THEN <<"spirv.GroupNonUniformFAdd", "spirv.GroupNonUniformIAdd">>
    ELSE <<>>

\* the loop over the handlers and the return after it
ReduceByTable(op, subgroup) ==
  IF ReduceHandlers(op.kind) # <<>>
    THEN SpvSuccess(<<genReduceOp(
           IF op.elem.kind = "float" THEN ReduceHandlers(op.kind)[1]
           ELSE ReduceHandlers(op.kind)[2], subgroup)>>)
    ELSE SpvSuccess(<<>>)

ConvertAllReduceOp(op) ==
  IF op.kind = NoReduceType THEN SpvFailure
  ELSE IF ~isIntOrFloat(op.elem) THEN SpvFailure
  ELSE ReduceByTable(op, FALSE)

ConvertSubgroupReduceOp(op) ==
  IF ~isIntOrFloat(op.elem) THEN SpvFailure
  ELSE ReduceByTable(op, TRUE)

ApplyConvertAllReduceOp ==
  /\ spvOp.op = "gpu.all_reduce"
  /\ spvOut = SpvPending
  /\ spvOut' = ConvertAllReduceOp(spvOp)
  /\ UNCHANGED spvOp
  /\ SpvFrame

ApplyConvertSubgroupReduceOp ==
  /\ spvOp.op = "gpu.subgroup_reduce"
  /\ spvOut = SpvPending
  /\ spvOut' = ConvertSubgroupReduceOp(spvOp)
  /\ UNCHANGED spvOp
  /\ SpvFrame

\* a reduce op of any kind on a value of any of the element types or of
\* index type
ReduceInit ==
  /\ \E elem \in SpvElemTypes \cup {IndexElem} :
       \/ \E kind \in ReduceTypes \cup {NoReduceType} :
            spvOp = ReduceOp("gpu.all_reduce", kind, elem)
       \/ \E kind \in ReduceTypes :
            spvOp = ReduceOp("gpu.subgroup_reduce", kind, elem)
  /\ spvOut = SpvPending

ReduceNext == ApplyConvertAllReduceOp \/ ApplyConvertSubgroupReduceOp

(***************************************************************************)
(* GPUToSpirvPass, TruncateF64ForGPUPass and SerializeSPIRVPass on a       *)
(* module.  A kernel module holds one kernel function, which has one user. *)
(***************************************************************************)
\* legal: applyFullConversion of the module's clone succeeds
\* env, f64: the module has a target env, and it has the Float64 capability
\* sigF64: the signature of the kernel function mentions f64
\* funcOk: applyPartialConversion of the kernel function succeeds
\* user: the op that refers to the kernel function
\* converted, args, binary: what the passes did to the module
KernelModule(name, legal, env, f64, sigF64, funcOk, user) ==
  [name |-> name, legal |-> legal, env |-> env, f64 |-> f64,
   sigF64 |-> sigF64, funcOk |-> funcOk, user |-> user,
   converted |-> FALSE, args |-> "original", binary |-> FALSE]
\* a module placed next to the kernel modules: the clone of a kernel module,
\* or a spirv.module
SideModule(name, kind, serializable) ==
  [name |-> name, kind |-> kind, serializable |-> serializable]
KernelUsers == {"gpu.launch_func", "gpu.launch_func incompatible",
                "suggest_block_size", "unknown"}

ModFrame ==
  UNCHANGED <<plierVars, inlVars, gpuVars, castVars,
              fiVars,
              argVars,
              cfVars,
              stdVars,
              truncVars,
              fpVars,
              resVars,
              dceVars,
              tileVars, exVars, flatVars, spvVars>>
ModFail == [modRun EXCEPT !.failed = TRUE, !.pc = "done"]
ModStep == [modRun EXCEPT !.idx = @ + 1]

\* GPUToSpirvPass: every kernel module is cloned first
SpirvClone ==
  /\ modRun.pass = "GPUToSpirvPass" /\ modRun.pc = "clone"
  /\ modIR' = [modIR EXCEPT !.side =
       modIR.side \o [i \in DOMAIN modIR.kernels |->
                        SideModule(modIR.kernels[i].name, "gpu.module clone", TRUE)]]
  /\ modRun' = [modRun EXCEPT !.pc = "run"]
  /\ UNCHANGED modOrig
  /\ ModFrame
\* then the clones are converted one by one; the first failure ends the pass
SpirvConvert ==
  /\ modRun.pass = "GPUToSpirvPass" /\ modRun.pc = "run"
  /\ modRun.idx <= Len(modIR.side)
  /\ IF modIR.kernels[modRun.idx].legal
     THEN /\ modIR' = [modIR EXCEPT !.side[modRun.idx].kind = "spirv.module"]
          /\ modRun' = ModStep
     ELSE /\ modRun' = ModFail
          /\ UNCHANGED modIR
  /\ UNCHANGED modOrig
  /\ ModFrame

\* TruncateF64ForGPUPass: one kernel module per step
\* a function without f64 in its signature keeps its signature (and, in
\* this model, holds no f64 at all)
TruncatedKernel(k) ==
  IF ~k.sigF64 THEN k
  ELSE IF k.user # "gpu.launch_func" THEN [k EXCEPT !.converted = TRUE]
  ELSE [k EXCEPT !.converted = TRUE, !.args = "rewritten"]
TruncateFails(k) ==
  \/ ~k.env
  \/ ~k.f64 /\ ~k.funcOk
  \/ /\ ~k.f64 /\ k.funcOk /\ k.sigF64
     /\ k.user \in {"unknown", "gpu.launch_func incompatible"}
TruncateF64 ==
  /\ modRun.pass = "TruncateF64ForGPUPass" /\ modRun.pc = "run"
  /\ modRun.idx <= Len(modIR.kernels)
  /\ modIR' =
       IF ~modIR.kernels[modRun.idx].env \/ modIR.kernels[modRun.idx].f64
          \/ ~modIR.kernels[modRun.idx].funcOk
       THEN modIR
       ELSE [modIR EXCEPT !.kernels[modRun.idx] =
               IF TruncateFails(modIR.kernels[modRun.idx])
               THEN [@ EXCEPT !.converted = TRUE]
               ELSE TruncatedKernel(@)]
  /\ modRun' = IF TruncateFails(modIR.kernels[modRun.idx]) THEN ModFail
               ELSE ModStep
  /\ UNCHANGED modOrig
  /\ ModFrame

\* SerializeSPIRVPass: one kernel module per step
SpvModulesOf(ir, name) ==
  {j \in DOMAIN ir.side :
     ir.side[j].kind = "spirv.module" /\ ir.side[j].name = name}
FirstOf(S) == CHOOSE j \in S : \A i \in S : j <= i
RemoveAt(q, j) == SubSeq(q, 1, j - 1) \o SubSeq(q, j + 1, Len(q))
SerializeSPIRV ==
  /\ modRun.pass = "SerializeSPIRVPass" /\ modRun.pc = "run"
  /\ modRun.idx <= Len(modIR.kernels)
  /\ IF SpvModulesOf(modIR, modIR.kernels[modRun.idx].name) = {}
     THEN modRun' = ModFail /\ UNCHANGED modIR
     ELSE IF ~modIR.side[FirstOf(SpvModulesOf(modIR,
                           modIR.kernels[modRun.idx].name))].serializable
     THEN modRun' = ModFail /\ UNCHANGED modIR
     ELSE /\ modIR' = [modIR EXCEPT
               !.kernels[modRun.idx].binary = TRUE,
               !.side = RemoveAt(@, FirstOf(SpvModulesOf(modIR,
                                     modIR.kernels[modRun.idx].name)))]
          /\ modRun' = ModStep
  /\ UNCHANGED modOrig
  /\ ModFrame

\* the loop over the kernel modules ends
ModPassDone ==
  /\ modRun.pc = "run"
  /\ modRun.idx > Len(modIR.kernels)
  /\ modRun' = [modRun EXCEPT !.pc = "done"]
  /\ UNCHANGED <<modIR, modOrig>>
  /\ ModFrame

NoRun == [pass |-> "none", pc |-> "idle", idx |-> 0, failed |-> FALSE]
ModIdle ==
  /\ modIR = [kernels |-> <<>>, side |-> <<>>]
  /\ modOrig = modIR
  /\ modRun = NoRun

\* the modules given to the passes
MaxKernelModules == 2
KernelNames == <<"kernel0", "kernel1", "kernel2", "kernel3">>
SpirvInputs(i) ==
  {KernelModule(KernelNames[i], legal, TRUE, TRUE, FALSE, TRUE, "gpu.launch_func") :
     legal \in BOOLEAN}
TruncateInputs(i) ==
  {KernelModule(KernelNames[i], TRUE, TRUE, FALSE, sigF64, funcOk, user) :
     sigF64 \in BOOLEAN, funcOk \in BOOLEAN, user \in KernelUsers}
    \cup {KernelModule(KernelNames[i], TRUE, env, f64, TRUE, TRUE, "gpu.launch_func") :
            env \in BOOLEAN, f64 \in BOOLEAN}
SerializeInputs(i) ==
  {KernelModule(KernelNames[i], TRUE, TRUE, TRUE, FALSE, TRUE, "gpu.launch_func")}
ModuleInit ==
  /\ \E n \in 1..MaxKernelModules :
       \/ /\ \E ks \in [1..n -> UNION {SpirvInputs(i) : i \in 1..n}] :
               /\ \A i \in 1..n : ks[i] \in SpirvInputs(i)
               /\ modIR = [kernels |-> ks, side |-> <<>>]
          /\ modRun = [pass |-> "GPUToSpirvPass", pc |-> "clone", idx |-> 1,
                       failed |-> FALSE]
       \/ /\ \E ks \in [1..n -> UNION {TruncateInputs(i) : i \in 1..n}] :
               /\ \A i \in 1..n : ks[i] \in TruncateInputs(i)
               /\ modIR = [kernels |-> ks, side |-> <<>>]
          /\ modRun = [pass |-> "TruncateF64ForGPUPass", pc |-> "run", idx |-> 1,
                       failed |-> FALSE]
       \/ /\ \E ks \in [1..n -> UNION {SerializeInputs(i) : i \in 1..n}],
               present \in SUBSET (1..n), ser \in SUBSET (1..n) :
               /\ \A i \in 1..n : ks[i] \in SerializeInputs(i)
               /\ ser \subseteq present
               /\ \E side \in [1..Cardinality(present) ->
                                {SideModule(KernelNames[i], "spirv.module", i \in ser) :
                                   i \in present}] :
                    /\ \A a, b \in DOMAIN side :
                         a < b => \E i, j \in present :
                                    /\ i < j
                                    /\ side[a].name = KernelNames[i]
                                    /\ side[b].name = KernelNames[j]
                    /\ modIR = [kernels |-> ks, side |-> side]
          /\ modRun = [pass |-> "SerializeSPIRVPass", pc |-> "run", idx |-> 1,
                       failed |-> FALSE]
  /\ modOrig = modIR
ModuleNext ==
  SpirvClone \/ SpirvConvert \/ TruncateF64 \/ SerializeSPIRV \/ ModPassDone

(***************************************************************************)
(* PlierToStd.cpp: BuiltinCallsLoweringPass, the resolution of plier.call  *)
(* Types are "index" (an integer or index type), "f64" and "slice"; a      *)
(* value is the op that produces it, its type, its operands and the number *)
(* that tells it from the other values of the same op.                     *)
(***************************************************************************)
ResValue(op, type, id, args) ==
  [op |-> op, type |-> type, id |-> id, args |-> args]

\* the i-th operand of the call
CallArg(i, type) == ResValue("arg", type, i, <<>>)

\* plier.call: the name, the operands, the keyword arguments, the result types
PyCallOp(name, args, kwargs, resultTypes) ==
  [name |-> name, args |-> args, kwargs |-> kwargs, resultTypes |-> resultTypes]
NoCall == PyCallOp("", <<>>, <<>>, <<>>)

\* plier.cast of value to dstType
PlierCastOp(dstType, value) == ResValue("plier.cast", dstType, 0, <<value>>)

\* plier.build_slice; its builder gives it the slice type
BuildSliceOp(begin, end, stride) ==
  ResValue("plier.build_slice", "slice", 0, <<begin, end, stride>>)

\* arith.constant 1 : index
ResConstantIndexOp == ResValue("arith.constant", "index", 1, <<>>)

\* func.call to the function func; one value per result of its type
FuncCallOp(func, args) ==
  [i \in 1..Len(func.results) |->
     ResValue("func.call", func.results[i], i, args)]

plierToScfPipelineName == "plier-to-scf"

\* variant of rerunScfPipeline: the module gets no marker
rerunNothing(markers) == markers

\* rerunScfPipeline, on the jump markers of the module of the op
rerunScfPipeline(markers) == markers \cup {plierToScfPipelineName}

\* the outcome of resolveCall: status, the handler that ran, the values the
\* call was replaced by
ResOut(status, by, values) == [status |-> status, by |-> by, values |-> values]
ResPending == ResOut("pending", "", <<>>)

\* the module after a resolveCall that replaced the call: ops were created,
\* the marker set changed
ResReplaced(mod, created, markers) ==
  [mod EXCEPT !.call = NoCall, !.created = mod.created \o created,
              !.markers = markers]

\* isa<IntegerType, IndexType, NoneType>
isSliceOperand(type) == type \in {"index", "none"}

\* lowerSlice: the module and the outcome
lowerSlice(mod) ==
  LET op == mod.call
      operands == op.args
  IN IF \/ op.kwargs # <<>>
        \/ Len(operands) \notin {2, 3}
        \/ \E i \in 1..Len(operands) : ~isSliceOperand(operands[i].type)
       THEN <<mod, ResOut("failure", "slice", <<>>)>>
       ELSE <<ResReplaced(mod,
                (IF Len(operands) = 3 THEN <<>> ELSE <<"arith.constant">>)
                  \o <<"plier.build_slice">>,
                rerunScfPipeline(mod.markers)),
              ResOut("success", "slice",
                <<BuildSliceOp(operands[1], operands[2],
                    IF Len(operands) = 3 THEN operands[3]
                    ELSE ResConstantIndexOp)>>)>>

\* lowerRangeImpl; res is the result of numba::lowerRange, which on success
\* has rewritten the loop over the range and the call with it, and on
\* failure, as a rewrite pattern has to, has changed nothing
lowerRangeImpl(mod, res) ==
  IF res = "success"
    THEN <<ResReplaced(mod, <<"scf.for">>, rerunScfPipeline(mod.markers)),
           ResOut("success", "range", <<>>)>>
    ELSE <<mod, ResOut("failure", "range", <<>>)>>

\* the results cast to the result types of the call where the types differ
CastResults(results, resultTypes) ==
  [i \in 1..Len(results) |->
     IF resultTypes[i] # results[i].type
       THEN PlierCastOp(resultTypes[i], results[i]) ELSE results[i]]

\* the plier.cast ops CastResults creates
CastsCreated(results, resultTypes) ==
  [i \in 1..Cardinality({j \in 1..Len(results) :
                           resultTypes[j] # results[j].type}) |-> "plier.cast"]

\* what the resolver gives when it does not know the function
ResNull == <<ResValue("null", "", 0, <<>>)>>

\* what resolver.getFunc gives when it has no such function
FuncNull == <<<<"null">>, <<>>>>

\* the empty name
EmptyName == <<"", <<>>>>

\* BuiltinCallsLowering::resolveCall; rangeRes is the result of
\* numba::lowerRange, libRes the result of resolver.rewriteFunc
BuiltinResolveCall(mod, rangeRes, libRes) ==
  LET op == mod.call
  IN IF op.name = "range" THEN lowerRangeImpl(mod, rangeRes)
     ELSE IF op.name = "slice" THEN lowerSlice(mod)
     ELSE IF libRes = ResNull THEN <<mod, ResOut("failure", "library", <<>>)>>
     ELSE IF Len(libRes) # Len(op.resultTypes)
       THEN <<mod, ResOut("assert", "library", <<>>)>>
     ELSE <<ResReplaced(mod, CastsCreated(libRes, op.resultTypes),
              rerunScfPipeline(mod.markers)),
            ResOut("success", "library", CastResults(libRes, op.resultTypes))>>

\* a func.func of the module
ResFunc(name, inputs, results, vis) ==
  [name |-> name, inputs |-> inputs, results |-> results, visibility |-> vis]

\* the types of a sequence of values
TypesOf(values) == [i \in 1..Len(values) |-> values[i].type]

\* mod.lookupSymbol<func::FuncOp>(mangledName): the function, or none
ResLookup(funcs, mangledName) == {f \in funcs : f.name = mangledName}

\* ExternalCallsLowering::resolveCall; mangledName is the result of mangle
\* (empty if the types cannot be mangled), got the result of resolver.getFunc
ExternalResolveCall(mod, mangledName, got) ==
  LET op == mod.call
      found == ResLookup(mod.funcs, mangledName)
      new == IF found = {} /\ got # FuncNull
               THEN {ResFunc(mangledName, got[1], got[2], "private")} ELSE {}
      withFunc == [mod EXCEPT !.funcs = mod.funcs \cup new]
      externalFunc == CHOOSE f \in found \cup new : TRUE
      castedArgs == CastResults(op.args, externalFunc.inputs)
      results == FuncCallOp(externalFunc, castedArgs)
  IN IF op.kwargs # <<>> \/ mangledName = EmptyName
       THEN <<mod, ResOut("failure", "external", <<>>)>>
     ELSE IF found \cup new = {}
       THEN <<mod, ResOut("failure", "external", <<>>)>>
     ELSE IF Len(externalFunc.results) # Len(op.resultTypes)
       THEN <<withFunc, ResOut("assert", "external", <<>>)>>
     ELSE <<ResReplaced(withFunc,
              CastsCreated(op.args, externalFunc.inputs) \o <<"func.call">>
                \o CastsCreated(results, op.resultTypes),
              rerunScfPipeline(mod.markers)),
            ResOut("success", "external", CastResults(results, op.resultTypes))>>

ResFrame ==
  UNCHANGED <<plierVars, inlVars, gpuVars, castVars,
              fiVars,
              argVars,
              cfVars,
              stdVars,
              truncVars,
              fpVars,
              tileVars, exVars, flatVars, spvVars,
              modVars, dceVars>>

\* longest operand list of a call
MaxArgs == 3
\* most values a resolver gives for one call
MaxResults == 2

ResArgTypes == {"index", "f64"}
ResResultTypes == {"index", "slice"}
\* what resolver.rewriteFunc can give: nothing, or some values
LibResults ==
  {ResNull} \cup
  {[i \in 1..Len(ts) |-> ResValue("linalg", ts[i], i, <<>>)] :
     ts \in SeqsUpTo(ResResultTypes, MaxResults)}

\* mangle(name, types); it is not the identity: the name carries the types
Mangle(name, types) == <<name, types>>

\* what resolver.getFunc can give for these operand types: nothing, or the
\* types of a function of as many inputs
FuncTypes(types) ==
  {FuncNull} \cup
  {<<ins, outs>> : ins \in {types, [i \in 1..Len(types) |-> "f64"]},
                   outs \in SeqsUpTo(ResResultTypes, MaxResults)}

\* the greedy driver tries BuiltinCallsLowering on the call
ApplyBuiltinCallsLowering ==
  /\ resMod.call # NoCall
  /\ resOut.status # "assert"
  /\ "builtin" \notin resTried
  /\ \E rangeRes \in {"success", "failure"}, libRes \in LibResults :
       /\ resMod' = BuiltinResolveCall(resMod, rangeRes, libRes)[1]
       /\ resOut' = BuiltinResolveCall(resMod, rangeRes, libRes)[2]
  /\ resTried' = resTried \cup {"builtin"}
  /\ UNCHANGED resOrig
  /\ ResFrame

\* the greedy driver tries ExternalCallsLowering on the call
ApplyExternalCallsLowering ==
  /\ resMod.call # NoCall
  /\ resOut.status # "assert"
  /\ "external" \notin resTried
  /\ \E mangledName \in {EmptyName, Mangle(resMod.call.name, TypesOf(resMod.call.args))},
        got \in FuncTypes(TypesOf(resMod.call.args)) :
       /\ resMod' = ExternalResolveCall(resMod, mangledName, got)[1]
       /\ resOut' = ExternalResolveCall(resMod, mangledName, got)[2]
  /\ resTried' = resTried \cup {"external"}
  /\ UNCHANGED resOrig
  /\ ResFrame

\* a module of the pass: the call, the functions, the jump markers it bears,
\* and the ops the rewriter has created
ResModule(call, funcs, markers) ==
  [call |-> call, funcs |-> funcs, markers |-> markers, created |-> <<>>]

ResIdle ==
  /\ resMod = ResModule(NoCall, {}, {})
  /\ resOrig = ResModule(NoCall, {}, {})
  /\ resOut = ResPending
  /\ resTried = {}

ResCallNames == {"range", "slice", "f"}

\* the calls of the module: one result, up to MaxArgs operands
ResCalls ==
  {PyCallOp(name, [i \in 1..Len(ts) |-> CallArg(i, ts[i])], kwargs, <<r>>) :
     name \in ResCallNames, ts \in SeqsUpTo(ResArgTypes, MaxArgs),
     kwargs \in {<<>>, <<"step">>}, r \in ResResultTypes}

\* the module may already hold the mangled function of the call
ResFuncsFor(call) ==
  {{}} \cup
  {{ResFunc(Mangle(call.name, TypesOf(call.args)), TypesOf(call.args), outs,
            vis)} :
     outs \in SeqsUpTo(ResResultTypes, 1), vis \in {"public", "private"}}

ResInit ==
  /\ \E call \in ResCalls, markers \in {{}, {plierToScfPipelineName}, {"plier-to-std"}} :
       \E funcs \in ResFuncsFor(call) :
         resMod = ResModule(call, funcs, markers)
  /\ resOrig = resMod
  /\ resOut = ResPending
  /\ resTried = {}

ResNext == ApplyBuiltinCallsLowering \/ ApplyExternalCallsLowering

(***************************************************************************)
(* GpuToGpuRuntime.cpp: f64Tof32                                           *)
(* An i64 or i32 value is the set of the positions of its 1 bits.          *)
(***************************************************************************)
\* the bits of a number 0 <= n < 2^31
BitsOfNat(n) == {i \in 0..30 : (n \div 2^i) % 2 = 1}

\* the positions lo..hi, as a mask
BitRange(lo, hi) == lo..hi

\* arith.andi, arith.ori
AndI64(a, b) == a \cap b
OrI64(a, b) == a \cup b

\* arith.shrui, arith.shli on i64 by a constant k < 64
ShRUI64(a, k) == {i - k : i \in {j \in a : j >= k}}
ShLI64(a, k) == {i + k : i \in {j \in a : j + k < 64}}

\* the borrow into position i of a - b
RECURSIVE Borrow(_, _, _)
Borrow(a, b, i) ==
  IF i = 0 THEN FALSE
  ELSE \/ (i - 1) \notin a /\ (i - 1) \in b
       \/ ((i - 1) \in a <=> (i - 1) \in b) /\ Borrow(a, b, i - 1)

\* arith.subi on i64: a - b modulo 2^64
SubI64(a, b) ==
  {i \in 0..63 : ((i \in a) # (i \in b)) # Borrow(a, b, i)}

\* arith.trunci to i32
TruncI32(a) == {i \in a : i < 32}

\* arith.select on i64
SelectI64(c, a, b) == IF c THEN a ELSE b

\* the three fields of the result before they are put together
F32Mantissa(srcI64) == ShRUI64(AndI64(srcI64, BitRange(0, 51)), 29)
F32Exponent(srcI64) ==
  ShLI64(AndI64(SubI64(AndI64(ShRUI64(srcI64, 52), BitsOfNat(2047)),
                       BitsOfNat(1023 - 127)),
                BitsOfNat(255)),
         23)
F32Sign(srcI64) == ShLI64(ShRUI64(srcI64, 63), 31)

\* f64Tof32, from the i64 bitcast of src to the i32 that is bitcast to f32
f64Tof32(srcI64) ==
  TruncI32(SelectI64(AndI64(srcI64, BitRange(0, 62)) = {},
                    srcI64,
                    OrI64(OrI64(F32Mantissa(srcI64), F32Exponent(srcI64)),
                          F32Sign(srcI64))))

\* an f64 pattern from its sign, its biased exponent and its mantissa bits
F64Pattern(sign, exponent, mantissa) ==
  (IF sign = 1 THEN {63} ELSE {}) \cup ShLI64(BitsOfNat(exponent), 52)
    \cup mantissa

FpFrame ==
  UNCHANGED <<plierVars, inlVars, gpuVars, castVars,
              fiVars,
              argVars,
              cfVars,
              stdVars,
              truncVars,
              tileVars, exVars, flatVars, spvVars,
              modVars, dceVars, resVars>>

FpPending == [done |-> FALSE, bits |-> {}]

\* the truncation of one f64 value, as the ops f64Tof32 emits compute it
ApplyF64Tof32 ==
  /\ ~fpRes.done
  /\ fpRes' = [done |-> TRUE, bits |-> f64Tof32(fpSrc)]
  /\ UNCHANGED fpSrc
  /\ FpFrame

FpIdle == fpSrc = {} /\ fpRes = [done |-> TRUE, bits |-> {}]

\* biased f64 exponents: zero and denormal (0), the normals below, at the ends
\* of, inside and above the f32 range (897..1150), infinity and NaN (2047)
F64Exponents ==
  {0, 1, 127, 128, 896, 897, 898, 1022, 1023, 1024, 1149, 1150, 1151, 1152,
   1919, 2046, 2047}

\* number of mantissa bits that vary, at each end of the mantissa and on
\* each side of the bit where the f32 mantissa ends
MaxMantissaBits == 1

\* mantissas: bits at both ends and around position 29
F64Mantissas ==
  {m \in SUBSET ((0..(MaxMantissaBits - 1)) \cup ((29 - MaxMantissaBits)..28)
                 \cup (29..(28 + MaxMantissaBits))
                 \cup ((52 - MaxMantissaBits)..51)) : TRUE}

FpInit ==
  /\ \E sign \in {0, 1}, exponent \in F64Exponents, mantissa \in F64Mantissas :
       fpSrc = F64Pattern(sign, exponent, mantissa)
  /\ fpRes = FpPending

FpNext == ApplyF64Tof32

(***************************************************************************)
(* GpuToGpuRuntime.cpp: TruncateF64ForGPUPass, the kernel signatures and   *)
(* the launches.  A gpu module holds one kernel; the host code holds the   *)
(* ops that refer to the kernels.                                          *)
(***************************************************************************)
\* the converter of the pass: f64 becomes f32, a memref of f64 becomes a
\* memref of vector<2xi32>, every other type is kept
convertType(type) ==
  IF type = "f64" THEN "f32"
  ELSE IF type = "memref<f64>" THEN "memref<vector<2xi32>>"
  ELSE type

isMemRefType(type) ==
  type \in {"memref<f64>", "memref<i32>", "memref<vector<2xi32>>"}

\* a gpu.module: has it a target env, has the env Float64, the argument
\* types of its kernel, and whether applyPartialConversion succeeds on it
GpuModuleOp(env, float64, sig, convOk) ==
  [env |-> env, float64 |-> float64, sig |-> sig, convOk |-> convOk]

\* a kernel operand of a launch: the host value number src, as it is or
\* under a cast
KernelOperand(op, type, src) == [op |-> op, type |-> type, src |-> src]

\* an op of the host code that refers to the kernel of gpu module kernel
KernelUser(kind, kernel, operands) ==
  [kind |-> kind, kernel |-> kernel, operands |-> operands]

\* variant of newArg: a memref operand is always passed through a bitcast
newArgBitcastAll(origArg, newType) ==
  IF origArg.type = "f64" /\ newType = "f32"
    THEN KernelOperand("arith.truncf", newType, origArg.src)
  ELSE IF isMemRefType(origArg.type) /\ isMemRefType(newType)
    THEN KernelOperand("memref_bitcast", newType, origArg.src)
  ELSE IF newType = origArg.type THEN origArg
  ELSE KernelOperand("incompatible", newType, origArg.src)

\* the body of the loop over the kernel operands of a launch
newArg(origArg, newType) ==
  IF newType = origArg.type THEN origArg
  ELSE IF origArg.type = "f64" /\ newType = "f32"
    THEN KernelOperand("arith.truncf", newType, origArg.src)
  ELSE IF isMemRefType(origArg.type) /\ isMemRefType(newType)
    THEN KernelOperand("memref_bitcast", newType, origArg.src)
  ELSE KernelOperand("incompatible", newType, origArg.src)

Min(a, b) == IF a < b THEN a ELSE b

\* newArgs: llvm::zip stops at the shorter of the operands and the inputs
newArgs(operands, newSig) ==
  [i \in 1..Min(Len(operands), Len(newSig)) |-> newArg(operands[i], newSig[i])]

Incompatible(args) == \E i \in 1..Len(args) : args[i].op = "incompatible"

\* the loop over the uses of the kernel of gpu module k, from use j on:
\* the users, and whether the pass has failed
RECURSIVE RewriteUses(_, _, _, _)
RewriteUses(users, j, k, newSig) ==
  IF j > Len(users) THEN [users |-> users, failed |-> FALSE]
  ELSE IF users[j].kernel # k \/ users[j].kind = "suggest_block_size"
    THEN RewriteUses(users, j + 1, k, newSig)
  ELSE IF users[j].kind # "gpu.launch_func"
    THEN [users |-> users, failed |-> TRUE]
  ELSE IF Incompatible(newArgs(users[j].operands, newSig))
    THEN [users |-> users, failed |-> TRUE]
  ELSE RewriteUses([users EXCEPT ![j].operands = newArgs(@, newSig)],
                   j + 1, k, newSig)

ConvertedSig(sig) == [i \in 1..Len(sig) |-> convertType(sig[i])]

TruncFrame ==
  UNCHANGED <<plierVars, inlVars, gpuVars, castVars,
              fiVars,
              argVars,
              cfVars,
              stdVars,
              tileVars, exVars, flatVars, spvVars,
              modVars, dceVars, resVars, fpVars>>

\* one turn of the loop over the gpu modules
TruncateGpuModule ==
  /\ truncRun.pc = "run"
  /\ truncRun.idx <= Len(truncIR.modules)
  /\ LET k == truncRun.idx
         gpuModule == truncIR.modules[k]
         newSig == ConvertedSig(gpuModule.sig)
     IN IF ~gpuModule.env
          THEN /\ truncRun' = [truncRun EXCEPT !.pc = "done", !.failed = TRUE]
               /\ UNCHANGED truncIR
        ELSE IF gpuModule.float64
          THEN /\ truncRun' = [truncRun EXCEPT !.idx = @ + 1]
               /\ UNCHANGED truncIR
        ELSE IF ~gpuModule.convOk
          THEN /\ truncRun' = [truncRun EXCEPT !.pc = "done", !.failed = TRUE]
               /\ UNCHANGED truncIR
        ELSE /\ truncIR' =
                  [modules |-> [truncIR.modules EXCEPT ![k].sig = newSig],
                   users |-> IF newSig = gpuModule.sig THEN truncIR.users
                             ELSE RewriteUses(truncIR.users, 1, k, newSig).users]
             /\ truncRun' =
                  IF newSig # gpuModule.sig
                     /\ RewriteUses(truncIR.users, 1, k, newSig).failed
                    THEN [truncRun EXCEPT !.pc = "done", !.failed = TRUE]
                    ELSE [truncRun EXCEPT !.idx = @ + 1]
  /\ UNCHANGED truncOrig
  /\ TruncFrame

\* the loop over the gpu modules ends
TruncateDone ==
  /\ truncRun.pc = "run"
  /\ truncRun.idx > Len(truncIR.modules)
  /\ truncRun' = [truncRun EXCEPT !.pc = "done"]
  /\ UNCHANGED <<truncIR, truncOrig>>
  /\ TruncFrame

TruncIdle ==
  /\ truncIR = [modules |-> <<>>, users |-> <<>>]
  /\ truncOrig = truncIR
  /\ truncRun = [pc |-> "idle", idx |-> 0, failed |-> FALSE]

\* most arguments of a kernel
MaxKernelArgs == 2
\* most ops that refer to the kernel of the first gpu module
MaxKernelUsers == 2

KernelArgTypes == {"f64", "i32", "memref<f64>", "memref<i32>"}
KernelSigs == SeqsUpTo(KernelArgTypes, MaxKernelArgs) \ {<<>>}

\* host values of the types of the signature, in order
OperandsFor(sig) == [i \in 1..Len(sig) |-> KernelOperand("value", sig[i], i)]

\* the launches of a kernel: the operand types are those of the signature,
\* but for at most one operand
LaunchesOf(k, sig) ==
  {KernelUser("gpu.launch_func", k, OperandsFor(sig))} \cup
  {KernelUser("gpu.launch_func", k,
              [OperandsFor(sig) EXCEPT ![i] = KernelOperand("value", t, i)]) :
     i \in 1..Len(sig), t \in KernelArgTypes}

UsersOf(k, sig) ==
  LaunchesOf(k, sig) \cup {KernelUser("suggest_block_size", k, <<>>),
                           KernelUser("unknown", k, <<>>)}

\* target env, Float64 capability, convertible: a module to convert, one
\* whose conversion fails, one with Float64, one without a target env
GpuModuleKinds ==
  {<<TRUE, FALSE, TRUE>>, <<TRUE, FALSE, FALSE>>, <<TRUE, TRUE, TRUE>>,
   <<FALSE, FALSE, TRUE>>}

\* the gpu modules of the input: the first of any kind, the second of a few
FirstGpuModules ==
  {GpuModuleOp(kind[1], kind[2], sig, kind[3]) :
     kind \in GpuModuleKinds, sig \in KernelSigs}
SecondGpuModules ==
  {GpuModuleOp(TRUE, float64, <<"memref<f64>", "f64">>, TRUE) :
     float64 \in BOOLEAN}

\* the ops that refer to the first kernel: any user first, then launches
\* with the operand types of the signature and other users
UserSeqs(sig) ==
  {<<>>} \cup
  {<<u>> \o rest :
     u \in UsersOf(1, sig),
     rest \in SeqsUpTo({KernelUser("gpu.launch_func", 1, OperandsFor(sig)),
                        KernelUser("suggest_block_size", 1, <<>>),
                        KernelUser("unknown", 1, <<>>)}, MaxKernelUsers - 1)}

TruncInit ==
  /\ \E m1 \in FirstGpuModules :
       \E us \in UserSeqs(m1.sig) :
         \/ truncIR = [modules |-> <<m1>>, users |-> us]
         \/ \E m2 \in SecondGpuModules :
              truncIR = [modules |-> <<m1, m2>>,
                         users |-> us \o <<KernelUser("gpu.launch_func", 2,
                                                      OperandsFor(m2.sig))>>]
  /\ truncOrig = truncIR
  /\ truncRun = [pc |-> "run", idx |-> 1, failed |-> FALSE]

TruncNext == TruncateGpuModule \/ TruncateDone

(***************************************************************************)
(* PlierToStdPass on a module, and again on the module it left             *)
(***************************************************************************)
NoneType == [kind |-> "none", width |-> 0, sign |-> "none", elems |-> <<>>]
TypeVarType == [kind |-> "typevar", width |-> 0, sign |-> "none", elems |-> <<>>]
\* a python type the type converter has no conversion for
PyType == [kind |-> "pytype", width |-> 0, sign |-> "none", elems |-> <<>>]
\* plier::OmittedType: the type of an omitted argument, with its default value
OmittedType(attrType) ==
  [kind |-> "omitted", width |-> 0, sign |-> "none", elems |-> <<attrType>>]

isOmittedType(type) == type.kind = "omitted"

\* typeConverter.convertType: the identity, an omitted type converts to no type
typeConverter(type) == IF isOmittedType(type) THEN NullType ELSE type

\* the value attribute of a plier.const, by its type (the null type: the
\* attribute is not a typed one)
ConstAttr(attrType) == MkOp("attr", attrType, <<>>, "", 0)
ConstOp(attrType, type) == MkOp("plier.const", type, <<ConstAttr(attrType)>>, "", 0)
CastOp(type, value) == MkOp("plier.cast", type, <<value>>, "", 0)
UnaryOp(name, type, value) == MkOp("plier.unary", type, <<value>>, name, 0)
BinOp(name, type, lhs, rhs) == MkOp("plier.binop", type, <<lhs, rhs>>, name, 0)
UndefOp(type) == MkOp("numba_util.undef", type, <<>>, "", 0)
\* arith.constant / complex.constant of a typed attribute
ConstantOp(type) ==
  MkOp(IF isComplex(type) THEN "complex.constant" ELSE "arith.constant",
       type, <<>>, "", 0)

\* the op as the binary and unary patterns see it
PlierOpOf(v) ==
  PlierOp(v.op, v.attr, [i \in 1..Len(v.args) |-> v.args[i].type], v.type)

\* target.addDynamicallyLegalOp<plier::CastOp>
isLegalCastOp(inputType, type) ==
  LET srcType == typeConverter(inputType)
      dstType == typeConverter(type)
  IN IF isOmittedType(inputType) THEN FALSE
     ELSE IF srcType = dstType /\ inputType # type THEN FALSE
     ELSE srcType = dstType \/ ~isNum(srcType) \/ ~isNum(dstType)

\* target.addDynamicallyLegalOp<plier::ConstOp, plier::GlobalOp>
isLegalConstOp(resultType) ==
  LET type == typeConverter(resultType)
  IN IF type = NullType THEN TRUE
     ELSE IF type \in {NoneType, TypeVarType} THEN FALSE
     ELSE ~isSupportedType(type)

\* target.addDynamicallyLegalOp<numba::util::UndefOp>
isLegalUndefOp(srcType) == srcType = typeConverter(srcType)

\* the ops of the two dialects of target.addLegalDialect
LegalDialectOps ==
  {"arith.addf", "arith.addi", "arith.andi", "arith.cmpf", "arith.cmpi",
   "arith.constant", "arith.divf", "arith.divui", "arith.extf", "arith.extsi",
   "arith.extui", "arith.floordivsi", "arith.fptosi", "arith.fptoui",
   "arith.index_cast", "arith.mulf", "arith.muli", "arith.negf", "arith.ori",
   "arith.remf", "arith.remsi", "arith.select", "arith.shli", "arith.shrsi",
   "arith.sitofp", "arith.subf", "arith.subi", "arith.truncf", "arith.trunci",
   "arith.uitofp", "arith.xori", "complex.add", "complex.constant",
   "complex.create", "complex.div", "complex.mul", "complex.neg",
   "complex.pow", "complex.sub"}

Legal(b) == IF b THEN "legal" ELSE "illegal"

\* what the conversion target says of an op: "legal", "illegal", or "unknown"
\* for an op the target has no entry for
Legality(v) ==
  CASE v.op = "plier.binop" -> Legal(isLegalBinOp(PlierOpOf(v)))
    [] v.op = "plier.unary" -> Legal(isLegalUnaryOp(PlierOpOf(v)))
    [] v.op = "plier.cast" -> Legal(isLegalCastOp(v.args[1].type, v.type))
    [] v.op = "plier.const" -> Legal(isLegalConstOp(v.type))
    [] v.op = "numba_util.undef" -> Legal(isLegalUndefOp(v.type))
    [] v.op \in {"numba_util.build_tuple", "numba_util.tuple_extract"} -> "legal"
    [] v.op \in LegalDialectOps -> "legal"
    [] OTHER -> "unknown"

StdFailure(pattern) == Outcome("failure", NullValue, pattern)

\* the tail of a pattern that replaces the op with res
StdReplace(res, pattern) ==
  IF res.op = "null" THEN StdFailure(pattern)
  ELSE IF res.op = "abort" THEN Outcome("abort", res, pattern)
  ELSE Outcome("success", res, pattern)

\* ConstOpLowering::matchAndRewrite
ConstOpLowering(attrType, resultType) ==
  LET expectedType == typeConverter(resultType)
      constVal == ConstantIntOp(0, attrType.width)
      signCast == SignCastOp(attrType, constVal)
  IN IF expectedType = NullType THEN StdFailure("ConstOpLowering")
     ELSE IF attrType # NullType /\ isSupportedType(attrType)
       THEN (IF isInt(attrType) /\ ~isSignless(attrType)
               THEN Outcome("success",
                            IF attrType # expectedType
                              THEN CastOp(expectedType, signCast) ELSE signCast,
                            "ConstOpLowering")
               ELSE Outcome("success", ConstantOp(attrType), "ConstOpLowering"))
     ELSE IF expectedType = NoneType
       THEN Outcome("success", UndefOp(expectedType), "ConstOpLowering")
     ELSE StdFailure("ConstOpLowering")

\* LiteralLowering<Op>::matchAndRewrite
LiteralLowering(resultType) ==
  LET convertedType == typeConverter(resultType)
  IN IF convertedType = NullType THEN StdFailure("LiteralLowering")
     ELSE IF convertedType \in {NoneType, TypeVarType}
       THEN Outcome("success", UndefOp(convertedType), "LiteralLowering")
     ELSE StdFailure("LiteralLowering")

\* OmittedLowering::matchAndRewrite
OmittedLowering(src, resultType) ==
  LET dstType == src.type.elems[1]
      newVal == ConstantOp(makeSignlessType(dstType))
  IN IF typeConverter(resultType) = NullType THEN StdFailure("OmittedLowering")
     ELSE IF isOmittedType(src.type)
       THEN Outcome("success",
                    IF dstType # newVal.type THEN SignCastOp(dstType, newVal)
                    ELSE newVal,
                    "OmittedLowering")
     ELSE StdFailure("OmittedLowering")

\* LowerCasts::matchAndRewrite
LowerCasts(src, resultType) ==
  LET dstType == typeConverter(resultType)
  IN IF dstType = NullType THEN StdFailure("LowerCasts")
     ELSE IF src.type = dstType
       THEN Outcome("success",
                    MkOp("builtin.unrealized_conversion_cast", dstType, <<src>>,
                         "", 0),
                    "LowerCasts")
     ELSE StdReplace(doConvert(src, dstType), "LowerCasts")

\* UndefOpLowering::matchAndRewrite
UndefOpLowering(oldType) ==
  LET type == typeConverter(oldType)
  IN IF type = NullType \/ oldType = type THEN StdFailure("UndefOpLowering")
     ELSE Outcome("success", UndefOp(type), "UndefOpLowering")

\* the outcomes of the patterns rooted at the op, in the order of patterns.insert
PatternsOn(v) ==
  CASE v.op = "plier.binop" ->
         <<BinOpLowering(PlierOpOf(v)), BinOpTupleLowering(PlierOpOf(v))>>
    [] v.op = "plier.unary" -> <<UnaryOpLowering(PlierOpOf(v))>>
    [] v.op = "plier.cast" ->
         <<LowerCasts(v.args[1], v.type), LiteralLowering(v.type),
           OmittedLowering(v.args[1], v.type)>>
    [] v.op = "plier.const" -> <<ConstOpLowering(v.args[1].type, v.type)>>
    [] v.op = "numba_util.undef" -> <<UndefOpLowering(v.type)>>
    [] OTHER -> <<>>

\* the first pattern that does not fail, a failure when all of them fail
FirstMatch(outcomes) ==
  LET done == {i \in 1..Len(outcomes) : outcomes[i].status # "failure"}
  IN IF done = {} THEN StdFailure("")
     ELSE outcomes[CHOOSE i \in done : \A j \in done : i <= j]

RECURSIVE SubstOperands(_, _)
\* the value a pattern built on the operands of the op, with the values that
\* define the operands in their place
SubstOperands(v, args) ==
  IF v.op = "arg" /\ v.idx + 1 \in 1..Len(args) THEN args[v.idx + 1]
  ELSE [v EXCEPT !.args = [i \in 1..Len(v.args) |-> SubstOperands(v.args[i], args)]]

\* variant of legalizeCreated: the ops a pattern creates are left as created
leaveCreated(v) == v

RECURSIVE legalize(_)
RECURSIVE legalizeCreated(_)
\* applyPartialConversion on the ops a pattern created: each is legalized in turn
legalizeCreated(v) == legalize(v)

\* the op after its patterns were tried on it: the ops of the first pattern
\* that matched; an illegal op that no pattern converts fails the conversion
\* (the null value); an op the target does not know is left
legalizeWithPattern(op, out) ==
  IF out.status = "success"
    THEN legalizeCreated(
           IF op.op \in {"plier.binop", "plier.unary"}
             THEN SubstOperands(out.value, op.args) ELSE out.value)
  ELSE IF out.status = "abort" THEN AbortValue
  ELSE IF Legality(op) = "illegal" THEN NullValue
  ELSE op

\* one op whose operands are legalized: a legal op is left, any other op goes
\* to its patterns
legalizeOp(op) ==
  IF \E i \in 1..Len(op.args) : Bad(op.args[i]) THEN NullValue
  ELSE IF Legality(op) = "legal" THEN op
  ELSE legalizeWithPattern(op, FirstMatch(PatternsOn(op)))

\* applyPartialConversion on an op and the ops that define its operands
legalize(v) ==
  IF v.op \in {"arg", "attr"} THEN v
  ELSE legalizeOp([v EXCEPT !.args = [i \in 1..Len(v.args) |-> legalize(v.args[i])]])

RECURSIVE Nodes(_)
\* the ops of a module
Nodes(v) ==
  (IF v.op \in {"arg", "attr"} THEN {} ELSE {v})
    \cup UNION {Nodes(v.args[i]) : i \in 1..Len(v.args)}

StdFrame ==
  UNCHANGED <<plierVars, inlVars, gpuVars, castVars,
              fiVars,
              argVars,
              cfVars,
              tileVars, exVars, flatVars, spvVars,
              modVars, dceVars, resVars, fpVars, truncVars>>

\* the state after applyPartialConversion returned res: a failure signals
\* the pass failure and leaves the module as it was
StdDone(res) ==
  /\ stdIR' = IF Bad(res) THEN stdIR ELSE res
  /\ stdRun' = [n |-> stdRun.n + 1, failed |-> Bad(res)]
  /\ stdFirst' = IF stdRun.n = 0 /\ ~Bad(res) THEN res ELSE stdFirst

\* PlierToStdPass::runOnOperation
PlierToStdRun ==
  /\ stdRun.n < 2
  /\ ~stdRun.failed
  /\ StdDone(legalize(stdIR))
  /\ StdFrame

StdIdle ==
  /\ stdIR = NullValue
  /\ stdFirst = NullValue
  /\ stdRun = [n |-> 0, failed |-> FALSE]

\* ---- inputs
StdTypes ==
  {IntegerType(64, "signed"), IntegerType(64, "signless"),
   IntegerType(32, "unsigned"), IntegerType(1, "signless"), FloatType(64),
   FloatType(32), ComplexType(64), IndexType, NoneType, TypeVarType, PyType,
   TupleType(<<IntegerType(64, "signed"), FloatType(64)>>)}

\* the operand and the result types of the binary and the unary ops
StdOperandTypes ==
  {IntegerType(64, "signed"), IntegerType(1, "signless"), FloatType(64),
   ComplexType(64), PyType,
   TupleType(<<IntegerType(64, "signed"), FloatType(64)>>)}

StdResultTypes ==
  {IntegerType(64, "signed"), FloatType(64), ComplexType(64), PyType,
   TupleType(<<IntegerType(64, "signed"), FloatType(64), IntegerType(64, "signed"),
               FloatType(64)>>)}

\* the types of the value attributes of a plier.const
StdAttrTypes ==
  {IntegerType(64, "signed"), IntegerType(64, "signless"),
   IntegerType(1, "unsigned"), FloatType(64), ComplexType(64), NullType}

StdOmittedTypes == {OmittedType(t) : t \in {IntegerType(64, "signed"), FloatType(64)}}

StdConsts == {ConstOp(a, t) : a \in StdAttrTypes, t \in StdTypes}

\* a module of one plier op on block arguments or on the result of a plier.const
StdInit ==
  /\ \/ stdIR \in StdConsts
     \/ \E t \in StdTypes, src \in StdTypes \cup StdOmittedTypes :
          stdIR = CastOp(t, Operand(0, src))
     \/ \E t \in StdTypes, c \in StdConsts : stdIR = CastOp(t, c)
     \/ \E name \in UnaryOpNames, t \in StdResultTypes, src \in StdTypes :
          stdIR = UnaryOp(name, t, Operand(0, src))
     \/ \E name \in BinOpNames, t \in StdResultTypes, lhs \in StdOperandTypes,
           rhs \in StdOperandTypes :
          stdIR = BinOp(name, t, Operand(0, lhs), Operand(1, rhs))
  /\ stdFirst = NullValue
  /\ stdRun = [n |-> 0, failed |-> FALSE]

StdNext == PlierToStdRun

(***************************************************************************)
(* CompilerFront.cpp: runUnderDiag                                         *)
(***************************************************************************)
Severities == {"error", "warning", "remark"}

\* a diagnostic emitted while the handler is installed: its severity, the
\* pass that emitted it (0: the verifier) and its number within that pass
Diagnostic(severity, pass, k) == [severity |-> severity, pass |-> pass, k |-> k]

\* what a pass of the pipeline does on the module: the diagnostics it emits
\* and whether it fails
PassRun(severities, fails) == [diags |-> severities, fails |-> fails]

\* variant of diagHandler: every diagnostic goes to the error text
diagHandlerAllSeverities(err, diag) == Append(err, diag)

\* diagHandler: the error text after the diagnostic (what goes to llvm::errs()
\* at once is not kept)
diagHandler(err, diag) ==
  IF diag.severity = "error" THEN Append(err, diag) ELSE err

RECURSIVE Emit(_, _, _, _)
\* the error text after the diagnostics severities[k..] of a pass went
\* through the handler
Emit(err, severities, pass, k) ==
  IF k > Len(severities) THEN err
  ELSE Emit(diagHandler(err, Diagnostic(severities[k], pass, k)),
            severities, pass, k + 1)

\* getErr: the error text, then the module as it is
getErr(err, module) == [diags |-> err, module |-> module]

\* what runUnderDiag wrote to llvm::errs() beside the diagnostics
NoDump == [title |-> "", diags |-> <<>>, module |-> 0]
Dump(title, err, module) ==
  [title |-> title, diags |-> getErr(err, module).diags,
   module |-> getErr(err, module).module]

CfFrame ==
  UNCHANGED <<plierVars, inlVars, gpuVars, castVars,
              fiVars,
              argVars,
              tileVars, exVars, flatVars, spvVars,
              modVars, dceVars, resVars, fpVars, truncVars, stdVars>>

\* mlir::verify(module) under the handler; the verifier reports a broken
\* module with one error
Verify ==
  /\ cfPc = "verify"
  /\ IF cfIn.valid
       THEN /\ cfPc' = "run"
            /\ UNCHANGED <<cfErr, cfOut>>
       ELSE /\ cfErr' = Emit(cfErr, <<"error">>, 0, 1)
            /\ cfOut' = [cfOut EXCEPT
                 !.dump = Dump("MLIR broken module", cfErr', cfModule),
                 !.result = "failure"]
            /\ cfPc' = "done"
  /\ UNCHANGED <<cfIn, cfModule>>
  /\ CfFrame

\* pm.run(module): the next pass of the pipeline; a pass that fails ends the
\* pipeline
RunPass ==
  /\ cfPc = "run"
  /\ cfModule < Len(cfIn.passes)
  /\ LET pass == cfIn.passes[cfModule + 1]
     IN /\ cfErr' = Emit(cfErr, pass.diags, cfModule + 1, 1)
        /\ cfModule' = IF pass.fails THEN cfModule ELSE cfModule + 1
        /\ cfOut' = IF pass.fails
                      THEN [cfOut EXCEPT
                              !.dump = Dump("MLIR pipeline failed", cfErr', cfModule),
                              !.result = "failure", !.ran = TRUE]
                      ELSE [cfOut EXCEPT !.ran = TRUE]
        /\ cfPc' = IF pass.fails THEN "done" ELSE "run"
  /\ UNCHANGED cfIn
  /\ CfFrame

\* pm.run(module) succeeded
PipelineDone ==
  /\ cfPc = "run"
  /\ cfModule = Len(cfIn.passes)
  /\ cfOut' = [cfOut EXCEPT !.result = "success", !.ran = TRUE]
  /\ cfPc' = "done"
  /\ UNCHANGED <<cfIn, cfErr, cfModule>>
  /\ CfFrame

NoCompile == [valid |-> TRUE, passes |-> <<>>]
NoOutcome == [result |-> "none", ran |-> FALSE, dump |-> NoDump]

CfIdle ==
  /\ cfIn = NoCompile
  /\ cfPc = "idle"
  /\ cfErr = <<>>
  /\ cfModule = 0
  /\ cfOut = NoOutcome

\* ---- inputs
\* most passes of the pipeline, most diagnostics of a pass
MaxPasses == 2
MaxDiags == 1

PassRuns ==
  {PassRun(d, f) : d \in SeqsUpTo(Severities, MaxDiags), f \in BOOLEAN}

\* a module that verifies or not, and a pipeline of passes
CfInit ==
  /\ \E valid \in BOOLEAN, passes \in SeqsUpTo(PassRuns, MaxPasses) :
       cfIn = [valid |-> valid, passes |-> passes]
  /\ cfPc = "verify"
  /\ cfErr = <<>>
  /\ cfModule = 0
  /\ cfOut = NoOutcome

CfNext == Verify \/ RunPass \/ PipelineDone

(***************************************************************************)
(* PyIROps.cpp: printArgList and parseArgList.  A text is a sequence of    *)
(* characters, a name is the sequence of the characters of the StringAttr. *)
(***************************************************************************)
Letters == {"a", "b"}
Digits == {"0", "1"}
Punctuation == {"(", ")", ",", ":"}

Token(kind, text) == [kind |-> kind, text |-> text]

RECURSIVE RunEnd(_, _, _)
\* the first position from i on whose character is not in class
RunEnd(text, i, class) ==
  IF i <= Len(text) /\ text[i] \in class THEN RunEnd(text, i + 1, class) ELSE i

RECURSIVE Lex(_, _)
\* the tokens of text[i..] as the lexer of the parser cuts them: blanks are
\* skipped, a bare identifier is a letter and the letters and digits after
\* it, an integer is a run of digits, an SSA name is % and the letters and
\* digits after it
Lex(text, i) ==
  IF i > Len(text) THEN <<>>
  ELSE IF text[i] = " " THEN Lex(text, i + 1)
  ELSE IF text[i] \in Punctuation
    THEN <<Token(text[i], <<text[i]>>)>> \o Lex(text, i + 1)
  ELSE IF text[i] \in Letters
    THEN <<Token("id", SubSeq(text, i, RunEnd(text, i + 1, Letters \cup Digits) - 1))>>
           \o Lex(text, RunEnd(text, i + 1, Letters \cup Digits))
  ELSE IF text[i] \in Digits
    THEN <<Token("int", SubSeq(text, i, RunEnd(text, i + 1, Digits) - 1))>>
           \o Lex(text, RunEnd(text, i + 1, Digits))
  ELSE IF text[i] = "%" /\ RunEnd(text, i + 1, Letters \cup Digits) > i + 1
    THEN <<Token("ssa", SubSeq(text, i, RunEnd(text, i + 1, Letters \cup Digits) - 1))>>
           \o Lex(text, RunEnd(text, i + 1, Letters \cup Digits))
  ELSE <<Token("error", <<text[i]>>)>>

\* printer.printOperand(arg)
printOperand(arg) == <<"%", arg>>

RECURSIVE printArgs(_, _, _)
\* the loop of printArgList from the i-th operand on
printArgs(args, argsNames, i) ==
  IF i > Len(args) THEN <<>>
  ELSE (IF i = 1 THEN <<>> ELSE <<",", " ">>)
         \o (IF argsNames[i] # <<>> THEN argsNames[i] \o <<":">> ELSE <<>>)
         \o printOperand(args[i])
         \o printArgs(args, argsNames, i + 1)

printArgList(args, argsNames) == <<"(">> \o printArgs(args, argsNames, 1) \o <<")">>

\* the result of parseArgList: false (no error) with the operands and the
\* names, or true
Parsed(operands, names) == [failed |-> FALSE, operands |-> operands, names |-> names]
ParseError == [failed |-> TRUE, operands |-> <<>>, names |-> <<>>]

KindAt(tokens, p) == IF p <= Len(tokens) THEN tokens[p].kind ELSE "eof"

RECURSIVE parseArgs(_, _, _, _)
\* the while loop of parseArgList with the parser at token p
parseArgs(tokens, p, operands, names) ==
  LET named == KindAt(tokens, p) = "id"
      q == IF named THEN p + 2 ELSE p      \* the keyword and the colon
      name == IF named THEN tokens[p].text ELSE <<>>
  IN IF named /\ KindAt(tokens, p + 1) # ":" THEN ParseError
     ELSE IF KindAt(tokens, q) # "ssa" THEN ParseError
     ELSE IF KindAt(tokens, q + 1) = ")"
       THEN Parsed(Append(operands, tokens[q].text[2]), Append(names, name))
     ELSE IF KindAt(tokens, q + 1) # "," THEN ParseError
     ELSE parseArgs(tokens, q + 2, Append(operands, tokens[q].text[2]),
                    Append(names, name))

parseArgTokens(tokens) ==
  IF KindAt(tokens, 1) # "(" THEN ParseError
  ELSE IF KindAt(tokens, 2) = ")" THEN Parsed(<<>>, <<>>)
  ELSE parseArgs(tokens, 2, <<>>, <<>>)

parseArgList(text) == parseArgTokens(Lex(text, 1))

ArgFrame ==
  UNCHANGED <<plierVars, inlVars, gpuVars, castVars,
              fiVars,
              tileVars, exVars, flatVars, spvVars,
              modVars, dceVars, resVars, fpVars, truncVars, stdVars, cfVars>>

NoText == <<>>
NotParsed == [failed |-> FALSE, operands |-> <<"none">>, names |-> <<>>]

\* the op is printed
PrintArgList ==
  /\ argText = NoText
  /\ argIn.used
  /\ argText' = printArgList(argIn.args, argIn.names)
  /\ UNCHANGED <<argIn, argOut>>
  /\ ArgFrame

\* the printed text is parsed
ParseArgList ==
  /\ argText # NoText
  /\ argOut = NotParsed
  /\ argOut' = parseArgList(argText)
  /\ UNCHANGED <<argIn, argText>>
  /\ ArgFrame

ArgIdle ==
  /\ argIn = [used |-> FALSE, args |-> <<>>, names |-> <<>>]
  /\ argText = NoText
  /\ argOut = NotParsed

\* ---- inputs
\* most operands of a list, longest name
MaxListArgs == 3
MaxNameLen == 3

\* the characters of the names, and the names: the empty name is that of an
\* unnamed operand
NameChars == {"a", "1", " "}
ArgNames == SeqsUpTo(NameChars, MaxNameLen)

\* the operands are the SSA values %0 and %1; the first operand has any of
\* the names, the operands after it a name of at most one character
ShortNames == SeqsUpTo(NameChars, 1)
ArgLists ==
  {<<>>} \cup {<<first>> \o rest : first \in Digits \X ArgNames,
                                  rest \in SeqsUpTo(Digits \X ShortNames,
                                                    MaxListArgs - 1)}

ArgInit ==
  /\ \E l \in ArgLists :
       argIn = [used |-> TRUE, args |-> [i \in 1..Len(l) |-> l[i][1]],
                names |-> [i \in 1..Len(l) |-> l[i][2]]]
  /\ argText = NoText
  /\ argOut = NotParsed

ArgNext == PrintArgList \/ ParseArgList

(***************************************************************************)
(* getFlatIndex on an identity-layout memref, with the run-time sizes      *)
(***************************************************************************)
\* a dimension of the memref type: static or dynamic, and its size at run time
FlatDim(static, size) == [static |-> static, size |-> size]

RECURSIVE SizeProduct(_, _, _)
\* the product of the run-time sizes of the dimensions from..to
SizeProduct(shape, from, to) ==
  IF from > to THEN 1 ELSE shape[from].size * SizeProduct(shape, from + 1, to)

\* the stride of a dimension in the layout expression: a constant, or the
\* symbol s_n
StrideConst(c) == [symbol |-> FALSE, n |-> c]
StrideSymbol(n) == [symbol |-> TRUE, n |-> n]

RECURSIVE StridesFrom(_, _, _, _, _)
\* mlir::makeCanonicalStridedLayoutExpr: the loop from the last dimension to
\* the first.  Dimension k gets the running product of the static sizes
\* after it, or the next symbol once a dynamic size was passed
StridesFrom(shape, k, runningSize, dynamicPoisonBit, nSymbols) ==
  IF k = 0 THEN <<>>
  ELSE StridesFrom(shape, k - 1,
                   IF shape[k].static THEN runningSize * shape[k].size
                   ELSE runningSize,
                   dynamicPoisonBit \/ ~shape[k].static,
                   IF dynamicPoisonBit THEN nSymbols + 1 ELSE nSymbols)
         \o <<IF dynamicPoisonBit THEN StrideSymbol(nSymbols)
              ELSE StrideConst(runningSize)>>

\* the strides of the dimensions 1..rank in d_1 * stride_1 + ... of the
\* expression
makeCanonicalStridedLayoutExpr(shape) == StridesFrom(shape, Len(shape), 1, FALSE, 0)

\* the operands getFlatIndex puts after the indices: operand i is the
\* product of the sizes of the last i dimensions
sizeOperands(shape) ==
  IF Len(shape) = 0 THEN <<>>
  ELSE [i \in 1..(Len(shape) - 1) |->
          SizeProduct(shape, Len(shape) - i + 1, Len(shape))]

RECURSIVE AffineSum(_, _, _, _)
\* affine.apply of the expression: the symbol s_n is the operand n (from 0)
AffineSum(expr, indices, symbolOperands, k) ==
  IF k > Len(expr) THEN 0
  ELSE indices[k] * (IF expr[k].symbol THEN symbolOperands[expr[k].n + 1] ELSE expr[k].n)
         + AffineSum(expr, indices, symbolOperands, k + 1)

\* getFlatIndex(builder, loc, memref, indices), identity layout: the value
\* of the affine.apply it returns
flatIndexValue(shape, indices) ==
  AffineSum(makeCanonicalStridedLayoutExpr(shape), indices, sizeOperands(shape), 1)

FiFrame ==
  UNCHANGED <<plierVars, inlVars, gpuVars, castVars,
              tileVars, exVars, flatVars, spvVars,
              modVars, dceVars, resVars, fpVars, truncVars, stdVars, cfVars,
              argVars>>

NoFlatIndex == [done |-> FALSE, value |-> 0]

GetFlatIndex ==
  /\ fiIn.used
  /\ ~fiOut.done
  /\ fiOut' = [done |-> TRUE, value |-> flatIndexValue(fiIn.shape, fiIn.indices)]
  /\ UNCHANGED fiIn
  /\ FiFrame

FiIdle ==
  /\ fiIn = [used |-> FALSE, shape |-> <<>>, indices |-> <<>>]
  /\ fiOut = NoFlatIndex

\* ---- inputs
\* highest rank, largest size of a dimension
MaxFlatRank == 3
MaxDimSize == 2

\* a dimension with an index inside it
IndexedDims ==
  {<<FlatDim(static, size), i>> :
     static \in BOOLEAN, size \in 1..MaxDimSize, i \in 0..(MaxDimSize - 1)}

FiInit ==
  /\ \E a \in SeqsUpTo({d \in IndexedDims : d[2] < d[1].size}, MaxFlatRank) :
       fiIn = [used |-> TRUE, shape |-> [k \in 1..Len(a) |-> a[k][1]],
               indices |-> [k \in 1..Len(a) |-> a[k][2]]]
  /\ fiOut = NoFlatIndex

FiNext == GetFlatIndex

(***************************************************************************)
(* numba::canConvert and numba::doConvert on one value and one             *)
(* destination type                                                        *)
(***************************************************************************)
\* floatIntCast to a 1-bit integer in a build that does not check
\* llvm_unreachable: getZeroFloat runs on into one of its two returns and the
\* compare and select are built as for f32 and f64
floatIntCastUnchecked(val, dstType) ==
  LET dstSignlessType == makeSignlessType(dstType)
      res == SelectOp(CmpFOp("oeq", val, ConstantFloatOp(val.type)),
                      ConstantIntOp(0, 1), ConstantIntOp(1, 1))
  IN IF dstSignlessType # dstType THEN SignCastOp(dstType, res) ELSE res

\* getZeroFloat of floatIntCast reaches llvm_unreachable
reachesUnreachable(srcType, dstType) ==
  /\ isFloat(srcType) /\ isInt(dstType)
  /\ dstType.width = 1
  /\ srcType.width \notin {32, 64}

\* what a call of doConvert may come to: llvm_unreachable ends the run in a
\* build that checks it and is undefined behaviour in one that does not
doConvertOutcomes(val, dstType) ==
  IF reachesUnreachable(val.type, dstType)
    THEN {doConvert(val, dstType), floatIntCastUnchecked(val, dstType)}
    ELSE {doConvert(val, dstType)}

CastFrame ==
  UNCHANGED <<plierVars, inlVars, gpuVars, tileVars, exVars, flatVars, spvVars,
              modVars, dceVars, resVars, fpVars, truncVars, stdVars, cfVars,
              argVars, fiVars>>

NotConverted == [done |-> FALSE, can |-> FALSE, value |-> NullValue]

\* canConvert(val.getType(), dstType) and doConvert(rewriter, loc, val, dstType)
DoConvert ==
  /\ castIn.used
  /\ ~castOut.done
  /\ \E res \in doConvertOutcomes(castIn.val, castIn.dstType) :
       castOut' = [done |-> TRUE,
                   can |-> canConvert(castIn.val.type, castIn.dstType),
                   value |-> res]
  /\ UNCHANGED castIn
  /\ CastFrame

CastIdle ==
  /\ castIn = [used |-> FALSE, val |-> NullValue, dstType |-> NullType]
  /\ castOut = NotConverted

\* ---- inputs: integer types of every width and signedness, f16, f32, f64,
\* index and the complex types over f32 and f64
CastTypes == NumTypes \cup {IndexType}

CastInit ==
  /\ \E srcType \in CastTypes, dstType \in CastTypes :
       castIn = [used |-> TRUE, val |-> Operand(1, srcType), dstType |-> dstType]
  /\ castOut = NotConverted

CastNext == DoConvert

\* the passes that are not under a specification are idle
OtherIdle == TileIdle /\ ExIdle /\ FlatIdle /\ SpvIdle /\ ModIdle /\ DceIdle /\ ResIdle /\ FpIdle /\ TruncIdle /\ StdIdle /\ CfIdle /\ ArgIdle /\ FiIdle /\ CastIdle

(***************************************************************************)
(* Specifications: one per pass                                            *)
(***************************************************************************)
\* ForceInlinePass on a module
InitInline == InlInit /\ PlierIdle /\ GpuIdle /\ OtherIdle
SpecInline == InitInline /\ [][InlNext]_vars

\* BinOpLowering / BinOpTupleLowering on a numeric plier.binop
InitBinOp == BinOpInit /\ InlIdle /\ GpuIdle /\ OtherIdle
SpecBinOp == InitBinOp /\ [][BinOpNext]_vars

\* the same patterns on an integer % with run-time values
InitMod == ModInit /\ InlIdle /\ GpuIdle /\ OtherIdle
SpecMod == InitMod /\ [][BinOpNext]_vars

\* the same patterns on a plier.binop with tuple operands
InitTuple == TupleInit /\ InlIdle /\ GpuIdle /\ OtherIdle
SpecTuple == InitTuple /\ [][BinOpNext]_vars

\* UnaryOpLowering on a plier.unary
InitUnary == UnaryInit /\ InlIdle /\ GpuIdle /\ OtherIdle
SpecUnary == InitUnary /\ [][UnaryNext]_vars

\* InsertGPUAllocs on a function
InitGpuAllocs == GpuInit /\ PlierIdle /\ InlIdle /\ OtherIdle
SpecGpuAllocs == InitGpuAllocs /\ [][GpuNext]_vars

\* TileParallelLoopsForGPUPass, then ParallelLoopGPUMappingPass, on a function
InitTile == TileInit /\ PlierIdle /\ InlIdle /\ GpuIdle /\ CastIdle /\ FiIdle /\ ArgIdle /\ CfIdle /\ StdIdle /\ TruncIdle /\ FpIdle /\ ResIdle /\ DceIdle /\ ExIdle /\ FlatIdle /\ SpvIdle /\ ModIdle
SpecTile == InitTile /\ [][TileNext]_vars

\* the same passes on a loop that is then run
InitTileRun == TileRunInit /\ PlierIdle /\ InlIdle /\ GpuIdle /\ CastIdle /\ FiIdle /\ ArgIdle /\ CfIdle /\ StdIdle /\ TruncIdle /\ FpIdle /\ ResIdle /\ DceIdle /\ ExIdle /\ FlatIdle /\ SpvIdle /\ ModIdle
SpecTileRun == InitTileRun /\ [][TileRunNext]_vars

\* GPUExPass on a function
InitGpuEx == ExInit /\ PlierIdle /\ InlIdle /\ GpuIdle /\ CastIdle /\ FiIdle /\ ArgIdle /\ CfIdle /\ StdIdle /\ TruncIdle /\ FpIdle /\ ResIdle /\ DceIdle /\ TileIdle /\ FlatIdle /\ SpvIdle /\ ModIdle
SpecGpuEx == InitGpuEx /\ [][ExNext]_vars

\* UnstrideMemrefsPass, run twice on a function
InitFlat == FlatInit /\ PlierIdle /\ InlIdle /\ GpuIdle /\ CastIdle /\ FiIdle /\ ArgIdle /\ CfIdle /\ StdIdle /\ TruncIdle /\ FpIdle /\ ResIdle /\ DceIdle /\ TileIdle /\ ExIdle /\ SpvIdle /\ ModIdle
SpecFlat == InitFlat /\ [][FlatNext]_vars

\* ConvertLoadOp / ConvertStoreOp on a load or store
InitSpirv ==
  SpvInit /\ PlierIdle /\ InlIdle /\ GpuIdle /\ CastIdle /\ FiIdle /\ ArgIdle /\ CfIdle /\ StdIdle /\ TruncIdle /\ FpIdle /\ ResIdle /\ DceIdle /\ TileIdle /\ ExIdle /\ FlatIdle
    /\ ModIdle
SpecSpirv == InitSpirv /\ [][SpvNext]_vars

\* GPUToSpirvPass, TruncateF64ForGPUPass or SerializeSPIRVPass on a module
InitModule ==
  ModuleInit /\ PlierIdle /\ InlIdle /\ GpuIdle /\ CastIdle /\ FiIdle /\ ArgIdle /\ CfIdle /\ StdIdle /\ TruncIdle /\ FpIdle /\ ResIdle /\ DceIdle /\ TileIdle /\ ExIdle /\ FlatIdle
    /\ SpvIdle
SpecModule == InitModule /\ [][ModuleNext]_vars

\* ForceInlinePass, then SymbolDCEPass, on a module
InitInlineDce ==
  InlInit /\ DceInit /\ PlierIdle /\ GpuIdle /\ CastIdle /\ FiIdle /\ ArgIdle /\ CfIdle /\ StdIdle /\ TruncIdle /\ FpIdle /\ TileIdle /\ ExIdle /\ FlatIdle
    /\ SpvIdle /\ ModIdle /\ ResIdle
SpecInlineDce == InitInlineDce /\ [][InlineDceNext]_vars

\* BuiltinCallsLoweringPass on a plier.call
InitResolve ==
  ResInit /\ PlierIdle /\ InlIdle /\ GpuIdle /\ CastIdle /\ FiIdle /\ ArgIdle /\ CfIdle /\ StdIdle /\ TruncIdle /\ FpIdle /\ DceIdle /\ TileIdle /\ ExIdle
    /\ FlatIdle /\ SpvIdle /\ ModIdle
SpecResolve == InitResolve /\ [][ResNext]_vars

\* f64Tof32 on an f64 value
InitFp ==
  FpInit /\ PlierIdle /\ InlIdle /\ GpuIdle /\ CastIdle /\ FiIdle /\ ArgIdle /\ CfIdle /\ StdIdle /\ TruncIdle /\ DceIdle /\ ResIdle /\ TileIdle
    /\ ExIdle /\ FlatIdle /\ SpvIdle /\ ModIdle
SpecFp == InitFp /\ [][FpNext]_vars

\* TruncateF64ForGPUPass on gpu modules and the launches of their kernels
InitTrunc ==
  TruncInit /\ PlierIdle /\ InlIdle /\ GpuIdle /\ CastIdle /\ FiIdle /\ ArgIdle /\ CfIdle /\ StdIdle /\ DceIdle /\ ResIdle /\ FpIdle
    /\ TileIdle /\ ExIdle /\ FlatIdle /\ SpvIdle /\ ModIdle
SpecTrunc == InitTrunc /\ [][TruncNext]_vars

\* ConvertAllReduceOp / ConvertSubgroupReduceOp on a reduce op
InitReduce ==
  ReduceInit /\ PlierIdle /\ InlIdle /\ GpuIdle /\ CastIdle /\ FiIdle /\ ArgIdle /\ CfIdle /\ StdIdle /\ TruncIdle /\ FpIdle /\ ResIdle /\ DceIdle /\ TileIdle /\ ExIdle /\ FlatIdle
    /\ ModIdle
SpecReduce == InitReduce /\ [][ReduceNext]_vars

\* PlierToStdPass run twice on a module of one plier op
InitStd ==
  /\ StdInit
  /\ PlierIdle /\ InlIdle /\ GpuIdle /\ CastIdle /\ FiIdle /\ ArgIdle /\ CfIdle /\ TruncIdle /\ FpIdle /\ ResIdle /\ DceIdle
  /\ TileIdle /\ ExIdle /\ FlatIdle /\ SpvIdle /\ ModIdle

SpecStd == InitStd /\ [][StdNext]_vars

\* runUnderDiag on a module and a pipeline
InitCf ==
  /\ CfInit
  /\ PlierIdle /\ InlIdle /\ GpuIdle /\ CastIdle /\ FiIdle /\ ArgIdle /\ StdIdle /\ TruncIdle /\ FpIdle /\ ResIdle /\ DceIdle
  /\ TileIdle /\ ExIdle /\ FlatIdle /\ SpvIdle /\ ModIdle

SpecCf == InitCf /\ [][CfNext]_vars

\* an argument list printed and parsed back
InitArg ==
  /\ ArgInit
  /\ PlierIdle /\ InlIdle /\ GpuIdle /\ CastIdle /\ FiIdle /\ StdIdle /\ CfIdle /\ TruncIdle /\ FpIdle /\ ResIdle
  /\ DceIdle /\ TileIdle /\ ExIdle /\ FlatIdle /\ SpvIdle /\ ModIdle

SpecArg == InitArg /\ [][ArgNext]_vars

\* getFlatIndex on one memref and one list of indices
InitFi ==
  /\ FiInit
  /\ PlierIdle /\ InlIdle /\ GpuIdle /\ CastIdle /\ StdIdle /\ CfIdle /\ ArgIdle /\ TruncIdle /\ FpIdle
  /\ ResIdle /\ DceIdle /\ TileIdle /\ ExIdle /\ FlatIdle /\ SpvIdle /\ ModIdle

SpecFi == InitFi /\ [][FiNext]_vars

\* ForceInlinePass run to its end: the greedy driver applies the pattern
\* without pausing and returns when nothing applies or at its iteration cap,
\* and mod->walk is a loop over the finitely many ops of the module, so a step
\* of the pass that can be taken is taken
SpecInlineFair == InitInline /\ [][InlNext]_vars /\ WF_vars(InlNext)

\* doConvert on one pair of a source and a destination type
InitCast ==
  /\ CastInit
  /\ PlierIdle /\ InlIdle /\ GpuIdle /\ StdIdle /\ CfIdle /\ ArgIdle /\ FiIdle /\ TruncIdle /\ FpIdle
  /\ ResIdle /\ DceIdle /\ TileIdle /\ ExIdle /\ FlatIdle /\ SpvIdle /\ ModIdle

SpecCast == InitCast /\ [][CastNext]_vars

\* all passes together
Init ==
  \/ InitInline \/ InitBinOp \/ InitMod \/ InitTuple \/ InitUnary \/ InitGpuAllocs
  \/ InitTile \/ InitTileRun \/ InitGpuEx \/ InitFlat
  \/ InitSpirv \/ InitModule \/ InitInlineDce \/ InitResolve
  \/ InitFp \/ InitTrunc \/ InitReduce \/ InitStd \/ InitCf \/ InitArg \/ InitFi \/ InitCast
Next == InlNext \/ BinOpNext \/ UnaryNext \/ GpuNext \/ TileRunNext
  \/ ExNext \/ FlatNext \/ SpvNext \/ ModuleNext \/ SymbolDCE \/ ResNext
  \/ FpNext \/ TruncNext \/ ReduceNext \/ StdNext \/ CfNext
  \/ ArgNext \/ FiNext \/ CastNext
Spec == Init /\ [][Next]_vars

(***************************************************************************)
(* Properties of ForceInlinePass                                           *)
(***************************************************************************)
\* the calls of the module whose callee is a function of the module and that
\* bear the force-inline attr, on the call or on the callee
ForcedCalls ==
  {c \in AllCalls :
     /\ body[c[1]][c[2]].callee \in FuncNames
     /\ body[c[1]][c[2]].attr \/ funcAttr[body[c[1]][c[2]].callee]}

\* C1: once the greedy rewrite has stopped and the walk is through, every call
\* left in the module that resolves to a function of the module and bears the
\* force-inline marker (itself or through its callee) has an error emitted on
\* it and the pass has signalled failure; a pass that did not fail left none.
C1_ForcedCallsReported ==
  inlPc = "done" =>
    /\ ForcedCalls \subseteq diags
    /\ ForcedCalls # {} => passFailed
    /\ ~passFailed => ForcedCalls = {}

\* a run that inlined a call, still ended with a forced call and failed on it
C1_FailedOnForcedCall ==
  /\ inlPc = "done"
  /\ rewrites > 0
  /\ ForcedCalls # {}
  /\ diags = ForcedCalls
  /\ passFailed

(***************************************************************************)
(* Properties of the plier-to-std patterns                                 *)
(***************************************************************************)
\* the value under the sign-cast to the result type, if there is one
StripSignCast(v) == IF v.op = "numba_util.sign_cast" THEN v.args[1] ELSE v

\* BinOpLowering ran on a plier.binop named name
LoweredBinOp(name) ==
  /\ plierOp.name = "plier.binop"
  /\ plierOp.op = name
  /\ lowered.pattern = "BinOpLowering"

\* Python's a % b for b # 0: the sign of b
PyMod(x, y) == IF y > 0 THEN x % y ELSE -((-x) % (-y))

\* the number an operand of integer type t holds
IntOf(b, t) == IF isSigned(t) THEN ToS(b, t.width) ELSE ToU(b)

\* C2: an integer % is lowered to ((a rem b) + b) rem b in the operand width,
\* and for all operand values a, b of a signed or unsigned type with b # 0 the
\* value is Python's a % b.
C2_ModIsPythonMod ==
  (/\ LoweredBinOp("%")
   /\ operandVals # <<>>
   /\ ~isSignless(plierOp.operandTypes[1])
   /\ operandVals[2] # {})
  => /\ lowered.status = "success"
     /\ StripSignCast(lowered.value).op = "arith.remsi"
     /\ StripSignCast(lowered.value).args[1].op = "arith.addi"
     /\ StripSignCast(lowered.value).args[1].args[1].op = "arith.remsi"
     /\ StripSignCast(lowered.value).type.width = plierOp.operandTypes[1].width
     /\ Eval(lowered.value, operandVals) =
          BitsOf(PyMod(IntOf(operandVals[1], plierOp.operandTypes[1]),
                       IntOf(operandVals[2], plierOp.operandTypes[1])),
                 plierOp.operandTypes[1].width)

\* 6 % 7 on signed 4-bit operands: the sum 6 + 7 wraps to -3, the value is -3
C2_WrappedSum ==
  /\ LoweredBinOp("%")
  /\ plierOp.operandTypes = <<IntegerType(4, "signed"), IntegerType(4, "signed")>>
  /\ operandVals = <<BitsOf(6, 4), BitsOf(7, 4)>>
  /\ lowered.status = "success"
  /\ ToS(Eval(lowered.value, operandVals), 4) = -3

\* BinOpLowering ran on a comparison / an operation of two integer operands
BothInt == isInt(plierOp.operandTypes[1]) /\ isInt(plierOp.operandTypes[2])

\* the common integer type of the two operands: the wider, the first on a tie
CommonIntType ==
  IF plierOp.operandTypes[1].width < plierOp.operandTypes[2].width
    THEN plierOp.operandTypes[2] ELSE plierOp.operandTypes[1]

\* C3: for <, <=, >, >= on two integers (of any two signednesses) the
\* arith.cmpi emitted carries the signed predicate iff the common integer type
\* the operands were brought to is signed, the unsigned predicate otherwise;
\* == and != carry eq and ne for every signedness.
C3_ComparePredicate ==
  \A name \in {"<", "<=", ">", ">=", "==", "!="} :
    (LoweredBinOp(name) /\ BothInt) =>
      /\ lowered.status = "success"
      /\ StripSignCast(lowered.value).op = "arith.cmpi"
      /\ StripSignCast(lowered.value).args[1].type =
           IntegerType(CommonIntType.width, "signless")
      /\ StripSignCast(lowered.value).args[2].type =
           IntegerType(CommonIntType.width, "signless")
      /\ StripSignCast(lowered.value).attr =
           CASE name = "==" -> "eq"
             [] name = "!=" -> "ne"
             [] name = "<" -> IF isSigned(CommonIntType) THEN "slt" ELSE "ult"
             [] name = "<=" -> IF isSigned(CommonIntType) THEN "sle" ELSE "ule"
             [] name = ">" -> IF isSigned(CommonIntType) THEN "sgt" ELSE "ugt"
             [] name = ">=" -> IF isSigned(CommonIntType) THEN "sge" ELSE "uge"

\* a signed 32-bit operand compared with an unsigned 64-bit one: unsigned predicate
C3_MixedSignCompare ==
  /\ LoweredBinOp("<")
  /\ plierOp.operandTypes = <<IntegerType(32, "signed"), IntegerType(64, "unsigned")>>
  /\ lowered.status = "success"
  /\ StripSignCast(lowered.value).attr = "ult"

\* the bit count of a type: integer width, mantissa width of the float type or
\* of the element type of the complex type
BitCount(t) ==
  IF isInt(t) THEN t.width
  ELSE CASE t.width = 16 -> 11 [] t.width = 32 -> 24 [] t.width = 64 -> 53

\* C4: coerce of two distinct supported types is one of the two: the complex
\* one when exactly one is complex, else the float one when exactly one is
\* float, else the one with the larger bit count, the first on equal counts;
\* BinOpLowering brings both operands to that type.
C4_CoerceRule ==
  (/\ plierOp.name = "plier.binop"
   /\ plierOp.operandTypes[1] \in NumTypes /\ plierOp.operandTypes[2] \in NumTypes
   /\ plierOp.operandTypes[1] # plierOp.operandTypes[2])
  => LET type0 == plierOp.operandTypes[1]
         type1 == plierOp.operandTypes[2]
         c == coerce(type0, type1)
     IN /\ c \in {type0, type1}
        /\ (isComplex(type0) # isComplex(type1)) => isComplex(c)
        /\ (isComplex(type0) = isComplex(type1) /\ isFloat(type0) # isFloat(type1))
             => isFloat(c)
        /\ (isComplex(type0) = isComplex(type1) /\ isFloat(type0) = isFloat(type1))
             => /\ BitCount(c) >= BitCount(type0)
                /\ BitCount(c) >= BitCount(type1)
                /\ BitCount(type0) = BitCount(type1) => c = type0
        /\ (lowered.pattern = "BinOpLowering" /\ lowered.status = "success")
             => /\ convertedOperands(type0, type1)[1].type = c
                /\ convertedOperands(type0, type1)[2].type = c

\* equal bit counts: a signed and an unsigned 32-bit operand, the first wins
C4_TieKeepsFirst ==
  /\ LoweredBinOp("+")
  /\ plierOp.operandTypes = <<IntegerType(32, "unsigned"), IntegerType(32, "signed")>>
  /\ lowered.status = "success"
  /\ coerce(plierOp.operandTypes[1], plierOp.operandTypes[2]) = IntegerType(32, "unsigned")

\* C5: ~ on a bool operand zero-extends it to 64 bits, XORs it with all-ones
\* and converts to the result type; for the input true the value is false.
C5_InvertTrueIsFalse ==
  (/\ plierOp.name = "plier.unary"
   /\ plierOp.op = "~"
   /\ isInt(plierOp.operandTypes[1]) /\ plierOp.operandTypes[1].width = 1
   /\ isInt(plierOp.resType)
   /\ operandVals = <<{0}>>
   /\ lowered.pattern = "UnaryOpLowering")
  => /\ lowered.status = "success"
     /\ CountOp(lowered.value, "arith.extui") = 1
     /\ CountOp(lowered.value, "arith.xori") = 1
     /\ lowered.value.type = plierOp.resType
     /\ Eval(lowered.value, operandVals) = {}

\* ~ on the bool true with a bool result: the value is true
C5_InvertTrueIsTrue ==
  /\ plierOp = PlierOp("plier.unary", "~", <<IntegerType(1, "signless")>>,
                       IntegerType(1, "signless"))
  /\ operandVals = <<{0}>>
  /\ lowered.status = "success"
  /\ Eval(lowered.value, operandVals) = {0}

\* BinOpLowering ran on a // of two integers with an integer result
IntFloorDiv == LoweredBinOp("//") /\ BothInt /\ isInt(plierOp.resType)

\* the ops a conversion between integer types is made of
IntCastOps ==
  {"numba_util.sign_cast", "arith.extsi", "arith.extui", "arith.trunci",
   "arith.cmpi", "arith.select", "arith.constant"}

\* C6: an integer // lowers to arith.floordivsi when the result
\* integer type is signed and to arith.divui otherwise (unsigned or signless);
\* the division is the replacement value itself (under the sign-cast to the
\* result type) and nothing but integer conversions of the operands is
\* emitted, so no zero-divisor check; with both operands and the result of
\* the signed 32-bit type it is the signed floor-division of the operands.
C6_FloorDivBySignedness ==
  IntFloorDiv =>
    /\ lowered.status = "success"
    /\ StripSignCast(lowered.value).op =
         (IF isSigned(plierOp.resType) THEN "arith.floordivsi" ELSE "arith.divui")
    /\ CountOp(lowered.value, "arith.floordivsi")
         + CountOp(lowered.value, "arith.divui") = 1
    /\ OpsOf(lowered.value) \subseteq IntCastOps \cup {"arith.floordivsi", "arith.divui"}
    /\ plierOp.resType.width > 1 =>
         OpsOf(lowered.value) \cap {"arith.cmpi", "arith.select"} = {}
    /\ (/\ plierOp.operandTypes = <<IntegerType(32, "signed"), IntegerType(32, "signed")>>
        /\ plierOp.resType = IntegerType(32, "signed"))
       => lowered.value =
            MkOp("numba_util.sign_cast", IntegerType(32, "signed"),
                 <<MkOp("arith.floordivsi", IntegerType(32, "signless"),
                        <<MkOp("numba_util.sign_cast", IntegerType(32, "signless"),
                               <<Operand(0, IntegerType(32, "signed"))>>, "", 0),
                          MkOp("numba_util.sign_cast", IntegerType(32, "signless"),
                               <<Operand(1, IntegerType(32, "signed"))>>, "", 0)>>,
                        "", 0)>>,
                 "", 0)

\* a // on two signed 32-bit operands with a signed 32-bit result
C6_SignedI32FloorDiv ==
  /\ IntFloorDiv
  /\ plierOp.operandTypes = <<IntegerType(32, "signed"), IntegerType(32, "signed")>>
  /\ plierOp.resType = IntegerType(32, "signed")
  /\ lowered.status = "success"
  /\ StripSignCast(lowered.value).op = "arith.floordivsi"

\* the plier.binop has a tuple operand
OnTuple == isTuple(plierOp.operandTypes[1]) \/ isTuple(plierOp.operandTypes[2])

\* + on two tuples
TuplePlus ==
  /\ plierOp.op = "+"
  /\ isTuple(plierOp.operandTypes[1])
  /\ isTuple(plierOp.operandTypes[2])

\* C7: + on two tuples is replaced by one numba_util.build_tuple whose
\* operands are the elements of the left tuple in order, then those of the
\* right tuple in order, and whose type is the concatenation of the two
\* element-type lists; a tuple + with a non-tuple right operand, and any other
\* operator on a tuple, is not rewritten by BinOpTupleLowering.
C7_TupleConcat ==
  plierOp.name = "plier.binop" =>
    LET lhs == plierOp.operandTypes[1]
        rhs == plierOp.operandTypes[2]
        n == Len(lhs.elems)
        m == Len(rhs.elems)
    IN /\ (TuplePlus /\ lowered.pattern = "BinOpTupleLowering") =>
            /\ lowered.status = "success"
            /\ lowered.value.op = "numba_util.build_tuple"
            /\ Len(lowered.value.args) = n + m
            /\ \A i \in 1..n :
                 /\ lowered.value.args[i].op = "numba_util.tuple_extract"
                 /\ lowered.value.args[i].args[1] = Operand(0, lhs)
                 /\ lowered.value.args[i].args[2].idx = i - 1
                 /\ lowered.value.args[i].type = lhs.elems[i]
            /\ \A i \in 1..m :
                 /\ lowered.value.args[n + i].op = "numba_util.tuple_extract"
                 /\ lowered.value.args[n + i].args[1] = Operand(1, rhs)
                 /\ lowered.value.args[n + i].args[2].idx = i - 1
                 /\ lowered.value.args[n + i].type = rhs.elems[i]
            /\ lowered.value.type = TupleType(lhs.elems \o rhs.elems)
       /\ (OnTuple /\ ~TuplePlus) =>
            /\ BinOpTupleLowering(plierOp).status = "failure"
            /\ ~(lowered.pattern = "BinOpTupleLowering" /\ lowered.status = "success")

\* (a, b) + (c,) became a three-element build_tuple
C7_ThreeElementTuple ==
  /\ plierOp.name = "plier.binop"
  /\ TuplePlus
  /\ Len(plierOp.operandTypes[1].elems) = 2
  /\ Len(plierOp.operandTypes[2].elems) = 1
  /\ lowered.pattern = "BinOpTupleLowering"
  /\ lowered.status = "success"
  /\ Len(lowered.value.args) = 3

\* C8: for every pair of distinct supported operand types BinOpLowering brings
\* both operands to the coerced type and neither conversion yields a null
\* value, so the two assertions hold.
C8_ConvertedOperandsNotNull ==
  (/\ plierOp.name = "plier.binop"
   /\ lowered.pattern = "BinOpLowering"
   /\ isSupportedType(plierOp.operandTypes[1])
   /\ isSupportedType(plierOp.operandTypes[2])
   /\ plierOp.operandTypes[1] # plierOp.operandTypes[2])
  => LET ops == convertedOperands(plierOp.operandTypes[1], plierOp.operandTypes[2])
         c == coerce(plierOp.operandTypes[1], plierOp.operandTypes[2])
     IN /\ ~Bad(ops[1]) /\ ops[1].type = c
        /\ ~Bad(ops[2]) /\ ops[2].type = c
        /\ ~(lowered.status = "abort" /\ lowered.value = NullValue)

\* complex<f32> + complex<f64>: the first conversion is null, the assertion fails
C8_ComplexPairAborts ==
  /\ LoweredBinOp("+")
  /\ plierOp.operandTypes = <<ComplexType(32), ComplexType(64)>>
  /\ plierOp.resType = ComplexType(64)
  /\ convertedOperands(ComplexType(32), ComplexType(64))[1] = NullValue
  /\ lowered.status = "abort"

(***************************************************************************)
(* Properties of InsertGPUAllocs                                           *)
(***************************************************************************)
\* positions of the ops the pass created for buffer b in a given role
InsertedOps(b, role) ==
  {i \in 1..Len(gpuFunc.ops) :
     /\ gpuFunc.ops[i].inserted
     /\ gpuFunc.ops[i].buf = b
     /\ gpuFunc.ops[i].role = role}

\* the ops of func named in names that use b inside a kernel
KernelUses(func, b, names) ==
  {i \in 1..Len(func.ops) :
     /\ func.ops[i].buf = b
     /\ func.ops[i].role # "def"
     /\ func.ops[i].loc \in DeviceLocs
     /\ func.ops[i].op \in names}

UsedInKernel(func, b) ==
  KernelUses(func, b, {"memref.load", "memref.store", "func.call"}) # {}

\* the access flags the pass stored for b, NoAccess if it stored none
StoredAccess(b) ==
  LET all == gpuBufferAllocs \o gpuBufferParams
  IN IF \E i \in 1..Len(all) : all[i].key = b
       THEN all[CHOOSE i \in 1..Len(all) : all[i].key = b].access
       ELSE NoAccess

Tracked(b) == b \in Keys(gpuBufferAllocs) \cup Keys(gpuBufferParams)

\* the alloc, the copies and the dealloc of b are as the stored flags demand
AllocCopyDealloc(b) ==
  LET acc == StoredAccess(b)
      ops == gpuFunc.ops
  IN /\ Tracked(b)
     /\ Cardinality(InsertedOps(b, "alloc")) = 1
     /\ \A i \in InsertedOps(b, "alloc") :
          /\ ops[i].op = "gpu.alloc"
          /\ ops[i].hostShared = (acc.hostRead \/ acc.hostWrite)
     /\ Cardinality(InsertedOps(b, "h2d")) =
          (IF acc.hostWrite /\ acc.deviceRead THEN 1 ELSE 0)
     /\ \A i \in InsertedOps(b, "alloc"), j \in InsertedOps(b, "h2d") :
          ops[j].op = "memref.copy" /\ j = i + 1
     /\ Cardinality(InsertedOps(b, "d2h")) =
          (IF acc.hostRead /\ acc.deviceWrite THEN 1 ELSE 0)
     /\ Cardinality(InsertedOps(b, "dealloc")) = 1
     /\ ops[Len(ops)].op = "func.return"
     /\ \A j \in InsertedOps(b, "dealloc") :
          /\ ops[j].op = "gpu.dealloc"
          /\ j < Len(ops)
          /\ \A i \in InsertedOps(b, "d2h") : ops[i].op = "memref.copy" /\ j = i + 1
     /\ acc.deviceRead =
          (KernelUses(gpuOrig, b, {"memref.load", "func.call"}) # {})
     /\ acc.deviceWrite =
          (KernelUses(gpuOrig, b, {"memref.store", "func.call"}) # {})
     /\ b = "p0" => acc.hostRead /\ acc.hostWrite
     /\ b = "g" => acc.hostWrite

DeviceConflict(func, b) ==
  \E i, j \in KernelUses(func, b, {"memref.load", "memref.store", "func.call"}) :
    /\ func.ops[i].loc \in {"gpuA", "gpuB"}
    /\ func.ops[j].loc \in {"gpuA", "gpuB"}
    /\ func.ops[i].loc # func.ops[j].loc

\* a kernel holds a memory op other than a load, a store or a call
UnhandledMemOp(func) ==
  \E i \in 1..Len(func.ops) :
    /\ func.ops[i].loc \in DeviceLocs
    /\ func.ops[i].op \in {"memref.atomic_rmw", "memref.copy"}

\* a kernel accesses a buffer that is neither a parameter, an alloc nor a global
UnhandledProducer(func) == UsedInKernel(func, "x")

WalkErrors == {"Uhhandled mem op in gpu region", "Unhandled memref producer"}

\* the buffers the pass allocates for
AllocatedFor(func) == {"g", "a"} \cup (IF func.gpuAccessible THEN {} ELSE {"p0"})

\* C10 (as amended): a failed pass left the function exactly as it was and
\* emitted an error; an unhandled memory op or memref producer in a kernel
\* fails the pass with that error; a device conflict on a buffer the pass
\* allocates for (an alloc, a global, a parameter not marked gpu-accessible)
\* fails the pass, with the device-conflict error unless the walk had already
\* failed on an unhandled op.
C10_ErrorsLeaveFunctionUntouched ==
  /\ gpuFailed => (gpuFunc = gpuOrig /\ gpuDiags # {} /\ gpuPc = "done")
  /\ gpuPc = "done" =>
       /\ (UnhandledMemOp(gpuOrig) \/ UnhandledProducer(gpuOrig)) =>
            (gpuFailed /\ gpuDiags # {} /\ gpuDiags \subseteq WalkErrors)
       /\ \A b \in AllocatedFor(gpuOrig) :
            DeviceConflict(gpuOrig, b) =>
              /\ gpuFailed
              /\ (UnhandledMemOp(gpuOrig) \/ UnhandledProducer(gpuOrig)
                    \/ gpuDiags = {"Device conflict"})

\* the global is accessed in two gpu environments: error, failure, no change
C10_ConflictOnGlobal ==
  /\ gpuPc = "done"
  /\ DeviceConflict(gpuOrig, "g")
  /\ gpuFailed
  /\ gpuDiags = {"Device conflict"}
  /\ gpuFunc = gpuOrig

\* C10 (as stated): a device conflict on any buffer gives the device-conflict
\* error and the failure, and the function is as before.
C10_EveryConflictFails ==
  gpuPc = "done" =>
    \A b \in {"p0", "g", "a"} :
      DeviceConflict(gpuOrig, b) =>
        (gpuFailed /\ "Device conflict" \in gpuDiags /\ gpuFunc = gpuOrig)

(***************************************************************************)
(* Properties of TileParallelOp                                            *)
(***************************************************************************)
\* the dimensions the rewrite replaced by a grid/block pair
TiledAxes == 1..numLoopsOf(TheLoop(tileOrig))
\* the trip count of dimension i of the loop before the rewrite
TripOf(i) == IdxEval(TheLoop(tileOrig).a.ub[i], <<>>, tileLocal)
CeilDiv(u, b) == (u + b - 1) \div b
TiledLoopRan == tilePc = "ran" /\ TiledAxes # {}
\* the index tuples the body has to run with: 0..U-1 along a tiled axis, the
\* range of the original dimension along any other
ExpectedIndices ==
  Product([i \in 1..oldLoopsCount(TheLoop(tileOrig)) |->
             IF i \in TiledAxes THEN 0..(TripOf(i) - 1)
             ELSE DimRange(IdxEval(TheLoop(tileOrig).a.lb[i], <<>>, tileLocal),
                           TripOf(i),
                           IdxEval(TheLoop(tileOrig).a.step[i], <<>>, tileLocal))])
\* grid size ceil(U / B) and block size B on a tiled axis, 1 on the others
TileShape ==
  \A i \in 1..maxLoops :
    /\ IdxEval(TheLoop(tileFunc).a.ub[i], <<>>, tileLocal)
         = IF i \in TiledAxes THEN CeilDiv(TripOf(i), tileLocal[i]) ELSE 1
    /\ IdxEval(TheLoop(tileFunc).a.ub[i + maxLoops], <<>>, tileLocal)
         = IF i \in TiledAxes THEN tileLocal[i] ELSE 1
\* every expected tuple is run exactly once, nothing else is run, and the
\* index along a tiled axis is g * B + b
TileCoverage ==
  /\ \A t \in ExpectedIndices : Cardinality({r \in tileRuns : r[2] = t}) = 1
  /\ \A r \in tileRuns :
       /\ r[2] \in ExpectedIndices
       /\ \A i \in TiledAxes :
            r[2][i] = r[1][i] * tileLocal[i] + r[1][i + maxLoops]
\* the largest index of the padded iteration space fits the index type
NoIndexWrap ==
  \A i \in TiledAxes :
    CeilDiv(TripOf(i), tileLocal[i]) * tileLocal[i] - 1 <= MaxIndex

\* C11 (as amended): when a tiled loop has run and, on every tiled axis, the
\* padded extent ceil(U / B) * B - 1 is representable in the index type, the
\* grid size is ceil(U / B), the block size is B, unused grid and block axes
\* have size 1, and the guarded body has run with g * B + b exactly once for
\* every index tuple in range and for no other.
C11_TiledLoopRunsEachIndexOnce ==
  TiledLoopRan /\ NoIndexWrap => TileShape /\ TileCoverage

\* C11 (as stated): the same for every trip count U >= 0 and block size B >= 1.
C11_AnyTripAndBlockSize == TiledLoopRan => TileShape /\ TileCoverage

\* C11 witness: two tiled axes, the first with trip count 3 and block size 2
\* (grid size 2, one padded iteration rejected by the guard), have run.
C11_PaddedTileRan ==
  /\ TiledLoopRan
  /\ TiledAxes = 1..2
  /\ TripOf(1) = 3 /\ tileLocal[1] = 2
  /\ TripOf(2) = 2 /\ tileLocal[2] = 3
  /\ Cardinality(tileRuns) = 6
  /\ Cardinality(IterPoints(TheLoop(tileFunc), tileLocal)) = 12

\* dimension i starts at the constant 0 and steps by the constant 1
isTileable(op, i) ==
  isConstantIntValue(op.a.lb[i], 0) /\ isConstantIntValue(op.a.step[i], 1)
\* the rewrite was applied to the loop of the region
WasTiled == TileMatch(tileOrig, <<1, 1>>) /\ ~TileMatch(tileFunc, <<1, 1>>)
\* the body of the rewritten loop: the ops under the scf.if on inBounds
TiledBody == TheLoop(tileFunc).body[1].body
\* dimension i of the old loop is dimension j of the new one, bounds and step
\* unchanged, and the body reads its induction variable
KeptAs(i, j) ==
  /\ TheLoop(tileFunc).a.lb[j] = TheLoop(tileOrig).a.lb[i]
  /\ TheLoop(tileFunc).a.ub[j] = TheLoop(tileOrig).a.ub[i]
  /\ TheLoop(tileFunc).a.step[j] = TheLoop(tileOrig).a.step[i]
  /\ TiledBody[1].a.idx[i] = BlockArgument(j)

\* C12 (as stated; the code violates it): in a rewritten loop, a dimension
\* whose lower bound is not the constant 0 or whose step is not the constant 1
\* is kept with its lower bound, upper bound and step, and only a dimension
\* with both properties is replaced by a grid/block pair.
C12_OnlyTileableDimsTiled ==
  WasTiled /\ TiledBody[1].kind = "use" =>
    \A i \in 1..oldLoopsCount(TheLoop(tileOrig)) :
      /\ ~isTileable(TheLoop(tileOrig), i) =>
           \E j \in (2 * maxLoops + 1)..oldLoopsCount(TheLoop(tileFunc)) :
             KeptAs(i, j)
      /\ TiledBody[1].a.idx[i] = tileVal(i) => isTileable(TheLoop(tileOrig), i)

\* C12 witness of the divergence: the first dimension starts at 1 and the
\* second at 0 with step 1; the rewrite tiles the first (index g * B + b from
\* 0) and keeps the second.
C12_NonZeroStartTiled ==
  /\ WasTiled
  /\ TiledBody[1].kind = "use"
  /\ oldLoopsCount(TheLoop(tileOrig)) = 2
  /\ TheLoop(tileOrig).a.lb[1] = ConstantIndexOp(1)
  /\ isTileable(TheLoop(tileOrig), 2)
  /\ TiledBody[1].a.idx[1] = tileVal(1)
  /\ TheLoop(tileFunc).a.lb[1] = ConstantIndexOp(0)
  /\ KeptAs(2, 2 * maxLoops + 1)

(***************************************************************************)
(* Properties of the two loop passes together                              *)
(***************************************************************************)
\* the parallel loops anywhere inside a gpu region
RegionLoops ==
  {p \in OpPaths(tileFunc) :
     OpAt(tileFunc, p).kind = "scf.parallel" /\ inGpuRegion(tileFunc, p)}

\* C15 (as stated; the code violates it): after TileParallelLoopsForGPUPass
\* and ParallelLoopGPUMappingPass every parallel loop inside a gpu region, at
\* any depth, carries the mapping attr.
C15_AllRegionLoopsMapped ==
  tilePc = "mapped" =>
    \A p \in RegionLoops : OpAt(tileFunc, p).a.mapping # <<>>

\* C15 witness of the divergence: both passes have run and a loop nested in
\* another parallel loop of a gpu region has no mapping attr, while its
\* parent has been tiled and mapped.
C15_NestedLoopUnmapped ==
  /\ tilePc = "mapped"
  /\ WasTiled
  /\ \E p \in RegionLoops :
       /\ hasParentOfType(tileFunc, p, "scf.parallel")
       /\ OpAt(tileFunc, p).a.mapping = <<>>

(***************************************************************************)
(* Properties of GPUExPass                                                 *)
(***************************************************************************)
ExpandedNames == {"launch_gpu_kernel", "gpu_alloc", "gpu_dealloc"}
ExExpanded == {i \in DOMAIN exFunc.ops : exFunc.ops[i].op \in ExpandedNames}
ExCreates == ExPositions(exFunc.ops, "create_gpu_stream")
ExDestroys == ExPositions(exFunc.ops, "destroy_gpu_stream")
\* the ops, other than its create and destroy, that take stream s
ExUsers(s) ==
  {i \in DOMAIN exFunc.ops :
     /\ exFunc.ops[i].stream = s
     /\ exFunc.ops[i].op \notin {"create_gpu_stream", "destroy_gpu_stream"}}
OneStreamPerDevice ==
  \A i, j \in ExCreates :
    exFunc.ops[i].device = exFunc.ops[j].device => i = j
ExpandedUseDeviceStream ==
  \A i \in ExExpanded :
    \E c \in ExCreates :
      /\ exFunc.ops[c].device = exFunc.ops[i].device
      /\ exFunc.ops[c].stream = exFunc.ops[i].stream
      /\ c < i
DestroyedOnceAtEnd ==
  \A c \in ExCreates :
    /\ Cardinality({d \in ExDestroys :
                      exFunc.ops[d].stream = exFunc.ops[c].stream}) = 1
    /\ \A d \in ExDestroys :
         exFunc.ops[d].stream = exFunc.ops[c].stream =>
           /\ \A u \in ExUsers(exFunc.ops[c].stream) : u < d
           /\ c < d
           /\ d < Len(exFunc.ops)
           /\ exFunc.ops[Len(exFunc.ops)].op = "func.return"

\* C13: in a single-block function, after any sequence of applications of
\* the patterns of GPUExPass (and so when the pass is done), there is at most
\* one create-stream per device, every expanded launch, alloc and dealloc
\* uses the stream of its device, every create-stream has exactly one
\* destroy-stream, and that destroy-stream is after every op that uses the
\* stream and before the function terminator.
C13_OneStreamPerDeviceDestroyedLast ==
  exPc \in {"expand", "done"} /\ exFunc.single =>
    OneStreamPerDevice /\ ExpandedUseDeviceStream /\ DestroyedOnceAtEnd

\* C13 witness: the pass is done on a function with ops of two devices; two
\* streams exist and two expanded ops share the stream of one device.
C13_TwoDevicesExpanded ==
  /\ exPc = "done"
  /\ Cardinality(ExCreates) = 2
  /\ \E i, j \in ExExpanded :
       /\ i < j
       /\ exFunc.ops[i].op = "launch_gpu_kernel"
       /\ exFunc.ops[j].op = "gpu_dealloc"
       /\ exFunc.ops[i].stream = exFunc.ops[j].stream

(***************************************************************************)
(* Properties of UnstrideMemrefsPass                                       *)
(***************************************************************************)
\* rank 0 or 1 and the identity layout
RankOneIdentity(type) == type.rank <= 1 /\ type.identity
\* the loads, stores and subviews inside the kernel
KernelAccesses ==
  {i \in DOMAIN flatOps : flatOps[i].op \in FlatNames /\ flatOps[i].inKernel}
\* the ops the rewrite created inside the kernel that yield a memref
CreatedInKernel ==
  {i \in DOMAIN flatOps :
     /\ flatOps[i].created
     /\ flatOps[i].inKernel
     /\ flatOps[i].type # NoMemRef}
AccessesAreFlat ==
  \A i \in KernelAccesses : RankOneIdentity(typeOf(flatOps, flatOps[i].src))
SecondRunChangesNothing == flatRun = 2 => flatOps = flatFirst

\* C14 (as amended): after UnstrideMemrefsPass no load, store or subview
\* inside a kernel operates on a memref of rank > 1 or with a non-identity
\* layout, and a second run of the pass changes nothing.
C14_KernelAccessesFlat ==
  /\ flatPc = "done" => AccessesAreFlat
  /\ SecondRunChangesNothing

\* C14 (as stated): moreover no memref op the rewrite created inside the
\* kernel has a type of rank > 1 or with a non-identity layout.
C14_NoCreatedOpUnflat ==
  /\ flatPc = "done" =>
       /\ AccessesAreFlat
       /\ \A i \in CreatedInKernel : RankOneIdentity(flatOps[i].type)
  /\ SecondRunChangesNothing

\* C14 witness: the second run is done on a kernel that held a subview of a
\* rank-2 memref and a load of the subview's result; both were rewritten.
C14_SubviewAndLoadFlattened ==
  /\ flatPc = "done"
  /\ flatRun = 2
  /\ flatOps[1].type = MemRefType(2, TRUE)
  /\ \E i, j \in KernelAccesses :
       /\ flatOps[i].op = "memref.subview" /\ flatOps[i].created
       /\ flatOps[j].op = "memref.load" /\ flatOps[j].created
       /\ \E c \in CreatedInKernel :
            /\ flatOps[c].op = "memref.reinterpret_cast"
            /\ flatOps[c].src = flatOps[i].id
            /\ ~RankOneIdentity(flatOps[c].type)
            /\ typeOf(flatOps, flatOps[j].src) = FlatMemRefType

(***************************************************************************)
(* Properties of the SPIR-V conversion of loads and stores                 *)
(***************************************************************************)
\* the element type has a size: an integer, a float or a static vector
isSized(type) ==
  \/ type.kind \in {"int", "float"}
  \/ type.kind = "vector" /\ type.elems > 0
\* the bytes an element occupies
SizeInBytes(type) == type.elems * ((type.width + 7) \div 8)
SpvConverted == spvOut # SpvPending
AlignedAccess ==
  SpvOp(IF spvOp.op = "memref.load" THEN "spirv.Load Aligned"
        ELSE "spirv.Store Aligned", SizeInBytes(spvOp.elem))

\* C16 (as stated; the code violates it): a load or store of a memref of
\* rank 0 or 1 with a sized element type is converted to an aligned load or
\* store whose alignment is the element size in bytes, through a pointer
\* access chain when the rank is 1; every other load or store is rejected.
C16_RankZeroAndOneConverted ==
  SpvConverted =>
    IF spvOp.rank \in {0, 1} /\ isSized(spvOp.elem)
    THEN /\ spvOut.ok
         /\ spvOut.ops[Len(spvOut.ops)] = AlignedAccess
         /\ Len(spvOut.ops) = IF spvOp.rank = 1 THEN 2 ELSE 1
         /\ spvOp.rank = 1 => spvOut.ops[1].op = "spirv.InBoundsPtrAccessChain"
    ELSE ~spvOut.ok

\* C16 witness of the divergence: a store to a rank-0 memref of f32 has been
\* handed to ConvertStoreOp, which rejected it.
C16_RankZeroStoreRejected ==
  /\ spvOp = [op |-> "memref.store", rank |-> 0, elem |-> ScalarElem("float", 32)]
  /\ SpvConverted
  /\ ~spvOut.ok

(***************************************************************************)
(* Properties of the passes on a module                                    *)
(***************************************************************************)
\* C17 (as stated; the code violates it): whenever GPUToSpirvPass,
\* TruncateF64ForGPUPass or SerializeSPIRVPass has signalled failure, the
\* module is as it was when the pass started.
C17_FailureRestoresModule == modRun.failed => modIR = modOrig

\* C17 witness of the divergence: GPUToSpirvPass has failed on the second of
\* two kernel modules; both clones are still in the module and the first is
\* converted to a spirv.module.
C17_FailedWithClonesLeft ==
  /\ modRun.pass = "GPUToSpirvPass"
  /\ modRun.failed
  /\ Len(modIR.kernels) = 2
  /\ modOrig.side = <<>>
  /\ Len(modIR.side) = 2
  /\ modIR.side[1].kind = "spirv.module"
  /\ modIR.side[2].kind = "gpu.module clone"

(***************************************************************************)
(* Properties of ForceInlinePass followed by SymbolDCEPass                 *)
(***************************************************************************)
\* a function body holds a call to f
CallsTo(b, f) == \E i \in 1..Len(b) : b[i].callee = f

\* the module held a call to f before the passes / holds one now
CalledOrig(f) == \E g \in FuncNames : CallsTo(bodyOrig[g], f)
CalledNow(f) == \E g \in symbols : CallsTo(body[g], f)

\* the force-inline functions the module held together with a call to them
ForcedFuncs == {f \in FuncNames : funcAttr[f] /\ CalledOrig(f)}

\* the ops of the module that bear the force-inline attr: functions and calls
MarkedFuncs == {f \in symbols : funcAttr[f]}
MarkedCalls == {c \in AllCalls : c[1] \in symbols /\ body[c[1]][c[2]].attr}

\* C18 (as amended): after ForceInlinePass has succeeded and SymbolDCEPass has
\* run on a module holding a force-inline function and a call to it, no call
\* to that function remains and the function has been erased if it is
\* private; the force-inline attr is left only on public functions and on
\* calls whose callee is not a function of the module.
C18_PrivateForcedFunctionErased ==
  inlPc = "swept" =>
    /\ \A f \in ForcedFuncs :
         /\ ~CalledNow(f)
         /\ visibility[f] = "private" => f \notin symbols
    /\ \A f \in MarkedFuncs : visibility[f] = "public"
    /\ \A c \in MarkedCalls : body[c[1]][c[2]].callee \notin FuncNames

\* the private force-inline function inc was inlined into main and erased
C18_PrivateIncErased ==
  /\ inlPc = "swept"
  /\ funcAttr["inc"] /\ visibility["inc"] = "private"
  /\ CallsTo(bodyOrig["main"], "inc")
  /\ rewrites > 0
  /\ symbols = {"main"}
  /\ ~CallsTo(body["main"], "inc")

\* C18 (as stated): after the two passes no call to the force-inline function
\* remains, the function has been erased and no op of the module bears the
\* force-inline attr.
C18_ForcedFunctionErasedNoMarker ==
  (inlPc = "swept" /\ ForcedFuncs # {}) =>
    /\ \A f \in ForcedFuncs : ~CalledNow(f) /\ f \notin symbols
    /\ MarkedFuncs = {}
    /\ MarkedCalls = {}

(***************************************************************************)
(* Properties of the call resolution                                       *)
(***************************************************************************)
\* resolveCall of the handler by has replaced the call
ResolvedBy(by) == resOut.status = "success" /\ resOut.by = by

\* the values that replace the call are as many as its results and have
\* their types
SameCountAndTypes ==
  /\ Len(resOut.values) = Len(resOrig.call.resultTypes)
  /\ \A i \in 1..Len(resOut.values) :
       i <= Len(resOrig.call.resultTypes)
         => resOut.values[i].type = resOrig.call.resultTypes[i]

\* C19: whenever a call is resolved by the slice handler, the library
\* resolver or the external-symbol resolver, the values that replace the call
\* are as many as the results of the call and each has the type of the result
\* it replaces (what replaces a call to range is made by numba::lowerRange).
C19_ReplacementKeepsCountAndTypes ==
  \A by \in {"slice", "library", "external"} :
    ResolvedBy(by) => SameCountAndTypes

\* slice(a, b) with a result of type index was replaced by the result of a
\* plier.build_slice, of type slice, and no cast
C19_SliceReplacedWithoutCast ==
  /\ ResolvedBy("slice")
  /\ Len(resOrig.call.args) = 2
  /\ resOrig.call.resultTypes = <<"index">>
  /\ Len(resOut.values) = 1
  /\ resOut.values[1].op = "plier.build_slice"
  /\ resOut.values[1].type = "slice"
  /\ resMod.created = <<"arith.constant", "plier.build_slice">>

\* the two resolvers cast: what they replace the call by has its types
LibraryAndExternalCast ==
  \A by \in {"library", "external"} : ResolvedBy(by) => SameCountAndTypes

\* C20: each resolveCall that replaces the call, of any handler, leaves the
\* plier-to-scf jump marker on the module (beside the markers it had); a
\* resolveCall that fails adds no marker, leaves the call as it was and the
\* module with it.
C20_MarkerAddedIffResolved ==
  /\ resMod.call = NoCall <=> resOut.status = "success"
  /\ resOut.status = "success" =>
       resMod.markers = resOrig.markers \cup {plierToScfPipelineName}
  /\ resOut.status = "failure" => resMod = resOrig

\* BuiltinCallsLowering failed on the call and added nothing, then
\* ExternalCallsLowering replaced it and the module got its first marker
C20_ExternalResolvedAfterBuiltinFailed ==
  /\ resTried = {"builtin", "external"}
  /\ ResolvedBy("external")
  /\ resOrig.markers = {}
  /\ resMod.markers = {plierToScfPipelineName}
  /\ resMod.call = NoCall

(***************************************************************************)
(* Properties of f64Tof32                                                  *)
(***************************************************************************)
\* the fields of the f64 value
F64Sign == IF 63 \in fpSrc THEN 1 ELSE 0
F64Exp == ToU({i - 52 : i \in {j \in fpSrc : j >= 52 /\ j <= 62}})
F64Man == {i \in fpSrc : i <= 51}

F64IsZero == F64Exp = 0 /\ F64Man = {}
F64IsDenormal == F64Exp = 0 /\ F64Man # {}
F64IsInfOrNaN == F64Exp = 2047
\* a normal value whose exponent f32 has: -126 <= F64Exp - 1023 <= 127
F64InF32Range == F64Exp >= 1023 - 126 /\ F64Exp <= 1023 + 127

\* the f32 pattern of a sign, a biased exponent and 23 mantissa bits
F32Pattern(sign, exponent, mantissa) ==
  (IF sign = 1 THEN {31} ELSE {}) \cup {i + 23 : i \in BitsOfNat(exponent)}
    \cup mantissa

\* the top 23 of the 52 mantissa bits
TopMantissa == {i - 29 : i \in {j \in F64Man : j >= 29}}

\* a normal f64 in the f32 range gives the f32 of the same sign, the
\* re-biased exponent and the top 23 mantissa bits
NormalInRangeTruncated ==
  (fpRes.done /\ F64InF32Range) =>
    fpRes.bits = F32Pattern(F64Sign, F64Exp - (1023 - 127), TopMantissa)

\* C21: f64Tof32 gives a zero for every denormal, NaN and infinity, the f32
\* zero of the same sign for +0 and -0, and for every normal f64 in the f32
\* exponent range the f32 of the same sign, the re-biased exponent and the
\* top 23 mantissa bits.
C21_F64ToF32ByCases ==
  fpRes.done =>
    /\ (F64IsDenormal \/ F64IsInfOrNaN) => fpRes.bits \subseteq {31}
    /\ F64IsZero => fpRes.bits = F32Pattern(F64Sign, 0, {})
    /\ F64InF32Range =>
         fpRes.bits = F32Pattern(F64Sign, F64Exp - (1023 - 127), TopMantissa)

\* -0.0 became +0.0
C21_NegativeZeroLostSign ==
  /\ fpSrc = {63}
  /\ fpRes.done
  /\ fpRes.bits = {}

\* +infinity became 1.0 (biased exponent 127, mantissa 0)
InfinityBecameOne ==
  /\ fpSrc = F64Pattern(0, 2047, {})
  /\ fpRes.done
  /\ fpRes.bits = F32Pattern(0, 127, {})

(***************************************************************************)
(* Properties of TruncateF64ForGPUPass                                     *)
(***************************************************************************)
TruncSucceeded == truncRun.pc = "done" /\ ~truncRun.failed

\* the gpu modules without Float64, those whose signature held f64
NoFloat64 == {k \in DOMAIN truncOrig.modules : ~truncOrig.modules[k].float64}
SigChanged ==
  {k \in NoFloat64 :
     \E i \in DOMAIN truncOrig.modules[k].sig :
       truncOrig.modules[k].sig[i] \in {"f64", "memref<f64>"}}

\* the launches of the kernels whose signature changed
ChangedLaunches ==
  {j \in DOMAIN truncOrig.users :
     /\ truncOrig.users[j].kind = "gpu.launch_func"
     /\ truncOrig.users[j].kernel \in SigChanged}

\* every f64 argument of the kernels without Float64 is an f32 now (and
\* every memref of f64 a memref of vector<2xi32>), the others are as before
SignaturesTruncated ==
  \A k \in NoFloat64 :
    /\ Len(truncIR.modules[k].sig) = Len(truncOrig.modules[k].sig)
    /\ \A i \in DOMAIN truncOrig.modules[k].sig :
         truncIR.modules[k].sig[i] =
           (IF truncOrig.modules[k].sig[i] = "f64" THEN "f32"
            ELSE IF truncOrig.modules[k].sig[i] = "memref<f64>"
              THEN "memref<vector<2xi32>>"
            ELSE truncOrig.modules[k].sig[i])

\* the operands of the launch j are as many as before and in the same order
SameOperandOrder(j) ==
  /\ Len(truncIR.users[j].operands) = Len(truncOrig.users[j].operands)
  /\ \A i \in DOMAIN truncOrig.users[j].operands :
       truncIR.users[j].operands[i].src = truncOrig.users[j].operands[i].src

\* operand i of launch j has the type of the argument of the kernel
MatchesKernel(j, i) ==
  truncIR.users[j].operands[i].type =
    truncIR.modules[truncIR.users[j].kernel].sig[i]

\* the gpu modules with Float64, and the ops that refer to their kernels or
\* to a kernel whose signature did not change, are as they were
Float64Untouched ==
  /\ \A k \in DOMAIN truncOrig.modules :
       truncOrig.modules[k].float64 => truncIR.modules[k] = truncOrig.modules[k]
  /\ \A j \in DOMAIN truncOrig.users :
       truncOrig.users[j].kernel \notin SigChanged
         => truncIR.users[j] = truncOrig.users[j]

\* the type of an operand and the new type of the argument do not go
\* together: they differ, and are neither f64 and f32 nor two memrefs
Mismatch(operand, newType) ==
  /\ operand.type # newType
  /\ ~(operand.type = "f64" /\ newType = "f32")
  /\ ~(isMemRefType(operand.type) /\ isMemRefType(newType))

\* a pass that succeeded met no launch with a mismatch
NoMismatchLeft ==
  \A j \in ChangedLaunches :
    \A i \in DOMAIN truncOrig.users[j].operands :
      ~Mismatch(truncOrig.users[j].operands[i],
                truncIR.modules[truncOrig.users[j].kernel].sig[i])

\* C22 (as amended): when the pass succeeds, every f64 argument of the
\* kernels of the gpu modules without Float64 is f32; in every launch of a
\* kernel whose signature changed each f64 operand is passed through an
\* arith.truncf to f32, each memref operand whose type is not the type of the
\* argument through a memref bitcast to it, every other operand as it is, in
\* the same number and order; gpu modules with Float64 are unchanged; and no
\* launch with another type mismatch was met.
C22_LaunchOperandsFollowSignature ==
  TruncSucceeded =>
    /\ SignaturesTruncated
    /\ \A j \in ChangedLaunches :
         /\ SameOperandOrder(j)
         /\ \A i \in DOMAIN truncOrig.users[j].operands :
              /\ MatchesKernel(j, i)
              /\ truncIR.users[j].operands[i].op =
                   (IF truncOrig.users[j].operands[i].type =
                        truncIR.modules[truncIR.users[j].kernel].sig[i]
                      THEN "value"
                    ELSE IF truncOrig.users[j].operands[i].type = "f64"
                      THEN "arith.truncf"
                    ELSE "memref_bitcast")
    /\ Float64Untouched
    /\ NoMismatchLeft

\* a kernel (memref<f64>, memref<i32>) was converted and its launch
\* rewritten: the first operand is bitcast, the second passed as it was
C22_BitcastAndPlainMemref ==
  /\ TruncSucceeded
  /\ truncOrig.modules[1].sig = <<"memref<f64>", "memref<i32>">>
  /\ truncIR.modules[1].sig = <<"memref<vector<2xi32>>", "memref<i32>">>
  /\ Len(truncIR.users) >= 1
  /\ truncOrig.users[1] =
       KernelUser("gpu.launch_func", 1,
                  OperandsFor(<<"memref<f64>", "memref<i32>">>))
  /\ truncIR.users[1].operands[1].op = "memref_bitcast"
  /\ truncIR.users[1].operands[2].op = "value"

\* C22 (as stated): the same, with each memref operand of such a launch
\* passed through a memref bitcast.
C22_EveryMemrefOperandBitcast ==
  TruncSucceeded =>
    /\ SignaturesTruncated
    /\ \A j \in ChangedLaunches :
         /\ SameOperandOrder(j)
         /\ \A i \in DOMAIN truncOrig.users[j].operands :
              /\ truncOrig.users[j].operands[i].type = "f64"
                   => truncIR.users[j].operands[i].op = "arith.truncf"
              /\ isMemRefType(truncOrig.users[j].operands[i].type)
                   => truncIR.users[j].operands[i].op = "memref_bitcast"
    /\ Float64Untouched
    /\ NoMismatchLeft

(***************************************************************************)
(* Properties of the reduce patterns                                       *)
(***************************************************************************)
\* a reduce pattern ran on a reduce op of a kind other than ADD
NonAddReduceDone ==
  /\ spvOp.op \in {"gpu.all_reduce", "gpu.subgroup_reduce"}
  /\ spvOp.kind \in ReduceTypes \ {"ADD"}
  /\ spvOut # SpvPending

\* C23: on a reduction kind other than ADD the two patterns either report
\* failure or replace the reduce op: they never report success and leave it.
C23_NonAddFailsOrReplaces ==
  NonAddReduceDone => (~spvOut.ok \/ spvOut.ops # <<>>)

\* ConvertAllReduceOp reported success on a MAX of f32 values and replaced
\* the op by nothing
C23_MaxReduceLeftWithSuccess ==
  /\ spvOp = ReduceOp("gpu.all_reduce", "MAX", ScalarElem("float", 32))
  /\ spvOut.ok
  /\ spvOut.ops = <<>>

\* an ADD of int or float values is replaced by the group op of its scope
AddReduceReplaced ==
  (/\ spvOp.op \in {"gpu.all_reduce", "gpu.subgroup_reduce"}
   /\ spvOp.kind = "ADD" /\ isIntOrFloat(spvOp.elem)
   /\ spvOut # SpvPending)
  => /\ spvOut.ok
     /\ Len(spvOut.ops) = 1
     /\ spvOut.ops[1].op = (IF spvOp.elem.kind = "float"
                              THEN "spirv.GroupNonUniformFAdd"
                              ELSE "spirv.GroupNonUniformIAdd")
     /\ spvOut.ops[1].scope = (IF spvOp.op = "gpu.all_reduce"
                                 THEN "Workgroup" ELSE "Subgroup")

(***************************************************************************)
(* PlierToStdPass run on its own output                                    *)
(***************************************************************************)
\* the ops of a module that the conversion target calls illegal
IllegalOps(v) == {n \in Nodes(v) : Legality(n) = "illegal"}

\* the ops of a module that are not legal and that a pattern of the pass converts
ConvertibleOps(v) ==
  {n \in Nodes(v) :
     Legality(n) # "legal" /\ FirstMatch(PatternsOn(n)).status # "failure"}

ErrorsOfPass(i) ==
  SelectSeq([k \in 1..Len(cfIn.passes[i].diags) |->
               Diagnostic(cfIn.passes[i].diags[k], i, k)],
            LAMBDA d : d.severity = "error")

RECURSIVE ErrorsUpTo(_)
\* the errors of passes 1..n, in the order of emission
ErrorsUpTo(n) == IF n = 0 THEN <<>> ELSE ErrorsUpTo(n - 1) \o ErrorsOfPass(n)

\* the first pass of the pipeline that fails, 0 when none does
FirstFailing ==
  LET failing == {i \in 1..Len(cfIn.passes) : cfIn.passes[i].fails}
  IN IF failing = {} THEN 0 ELSE CHOOSE i \in failing : \A j \in failing : i <= j

\* C25: the pipeline is run only on a module that verified; a module that does
\* not verify and a pipeline that fails both give failure, and success is
\* returned only when the module verified and no pass failed; on a failure
\* the dump holds the error diagnostics emitted up to then, in order, and the
\* module as it is
C25_VerifyThenRunThenDump ==
  /\ cfOut.ran => cfIn.valid
  /\ cfPc = "run" => cfIn.valid
  /\ cfOut.result = "success" => cfIn.valid /\ FirstFailing = 0
  /\ cfPc = "done" =>
       cfOut.result = (IF cfIn.valid /\ FirstFailing = 0 THEN "success"
                       ELSE "failure")
  /\ cfOut.result = "failure" =>
       /\ cfOut.dump.title =
            (IF cfIn.valid THEN "MLIR pipeline failed" ELSE "MLIR broken module")
       /\ cfOut.dump.diags =
            (IF cfIn.valid THEN ErrorsUpTo(FirstFailing)
             ELSE <<Diagnostic("error", 0, 1)>>)
       /\ cfOut.dump.module = cfModule
  /\ cfOut.result # "failure" => cfOut.dump = NoDump

\* the second pass failed after a warning, the first pass had emitted an
\* error without failing: failure is returned and the dump holds that error
\* and the module after the first pass
C25_PipelineFailedAfterError ==
  /\ cfIn = [valid |-> TRUE,
             passes |-> <<PassRun(<<"error">>, FALSE), PassRun(<<"warning">>, TRUE)>>]
  /\ cfOut.result = "failure"
  /\ cfOut.ran
  /\ cfOut.dump = [title |-> "MLIR pipeline failed",
                   diags |-> <<Diagnostic("error", 1, 1)>>, module |-> 1]

(***************************************************************************)
(* printArgList / parseArgList                                             *)
(***************************************************************************)
\* C26: the text printArgList wrote parses without error into the same
\* operands and the same names in the same order
C26_ParsePrintRoundTrip ==
  argOut # NotParsed =>
    /\ ~argOut.failed
    /\ argOut.operands = argIn.args
    /\ argOut.names = argIn.names

\* the operand %0 under the name "a a" was printed as (a a:%0), and
\* parseArgList reported an error on that text
C26_NameWithBlankNotParsed ==
  /\ argIn = [used |-> TRUE, args |-> <<"0">>, names |-> <<<<"a", " ", "a">> >>]
  /\ argText = <<"(", "a", " ", "a", ":", "%", "0", ")">>
  /\ argOut = ParseError

\* a name is a bare identifier when the lexer reads it as one keyword
isBareIdentifier(name) == Lex(name, 1) = <<Token("id", name)>>

\* when every name is empty or a bare identifier the round trip gives the
\* list back
RoundTripOfIdentifierNames ==
  (/\ argOut # NotParsed
   /\ \A i \in 1..Len(argIn.names) :
        argIn.names[i] = <<>> \/ isBareIdentifier(argIn.names[i]))
  => /\ ~argOut.failed
     /\ argOut.operands = argIn.args
     /\ argOut.names = argIn.names

\* a name that ends in a blank came back without it
NameCameBackChanged ==
  /\ argOut # NotParsed
  /\ ~argOut.failed
  /\ argOut.names # argIn.names

(***************************************************************************)
(* InsertGPUAllocs: the device buffer after its dealloc                    *)
(***************************************************************************)
\* the ops after the inserted dealloc of b that use the device buffer of b
UsesAfterDealloc(b) ==
  {j \in 1..Len(gpuFunc.ops) :
     /\ gpuFunc.ops[j].buf = b
     /\ gpuFunc.ops[j].dev
     /\ gpuFunc.ops[j].role # "dealloc"
     /\ \E i \in InsertedOps(b, "dealloc") : i < j}

\* C27: when the pass succeeds, no op that uses the device buffer of the
\* parameter or of the global comes after the dealloc inserted for it, the
\* return of the function included
C27_NoUseAfterDealloc ==
  (gpuPc = "done" /\ ~gpuFailed) =>
    \A b \in {"p0", "g"} : UsesAfterDealloc(b) = {}

\* the function loads its parameter in a kernel and returns it: the pass
\* succeeded, and the return, the op right after the gpu.dealloc, returns the
\* device buffer
C27_ReturnsDeallocatedBuffer ==
  /\ gpuPc = "done" /\ ~gpuFailed
  /\ gpuOrig = GpuFunc(FALSE, <<GOp("memref.load", "p0", "gpuA", "use")>>, "p0")
  /\ LET n == Len(gpuFunc.ops)
     IN /\ gpuFunc.ops[n].op = "func.return"
        /\ gpuFunc.ops[n].buf = "p0" /\ gpuFunc.ops[n].dev
        /\ gpuFunc.ops[n - 1].op = "gpu.dealloc"
        /\ gpuFunc.ops[n - 1].buf = "p0"

\* the return apart, every use of the device buffer comes before its dealloc
OnlyReturnAfterDealloc ==
  (gpuPc = "done" /\ ~gpuFailed) =>
    \A b \in {"p0", "g"} :
      \A j \in UsesAfterDealloc(b) : gpuFunc.ops[j].op = "func.return"

(***************************************************************************)
(* getFlatIndex: the row-major offset                                      *)
(***************************************************************************)
RECURSIVE RowMajor(_, _, _)
\* the sum over the dimensions k.. of i_k times the product of the sizes
\* after k
RowMajor(shape, indices, k) ==
  IF k > Len(shape) THEN 0
  ELSE indices[k] * SizeProduct(shape, k + 1, Len(shape))
         + RowMajor(shape, indices, k + 1)

\* every stride symbol of the layout expression is bound to the operand
\* that holds the product of the sizes after its dimension
SymbolsMatchStrides(shape) ==
  \A k \in 1..Len(shape) :
    makeCanonicalStridedLayoutExpr(shape)[k].symbol =>
      sizeOperands(shape)[makeCanonicalStridedLayoutExpr(shape)[k].n + 1]
        = SizeProduct(shape, k + 1, Len(shape))

\* C28: the flat index of an identity-layout memref is the row-major offset
\* of the indices, and the stride symbols of the layout expression are bound
\* to the matching size operands
C28_FlatIndexIsRowMajor ==
  fiOut.done =>
    /\ fiOut.value = RowMajor(fiIn.shape, fiIn.indices, 1)
    /\ SymbolsMatchStrides(fiIn.shape)

\* memref<?x?x2> with both dynamic sizes 2, indices (1, 0, 0): the row-major
\* offset is 4, getFlatIndex gave 2
C28_StaticLastDimWrongStride ==
  /\ fiIn.shape = <<FlatDim(FALSE, 2), FlatDim(FALSE, 2), FlatDim(TRUE, 2)>>
  /\ fiIn.indices = <<1, 0, 0>>
  /\ fiOut = [done |-> TRUE, value |-> 2]

\* the layout expression has no symbol, or the last dimension is dynamic
SymbolsFromLastDim(shape) ==
  \/ \A k \in 1..Len(shape) : ~makeCanonicalStridedLayoutExpr(shape)[k].symbol
  \/ Len(shape) > 0 /\ ~shape[Len(shape)].static

\* in those cases the flat index is the row-major offset
RowMajorWhenSymbolsFromLastDim ==
  (fiOut.done /\ SymbolsFromLastDim(fiIn.shape)) =>
    fiOut.value = RowMajor(fiIn.shape, fiIn.indices, 1)

(***************************************************************************)
(* Termination of ForceInlinePass                                          *)
(***************************************************************************)
\* f holds a call of g that the pattern accepts
CallsForced(f, g) ==
  \E c \in ForcedCalls : c[1] = f /\ body[f][c[2]].callee = g

\* a force-inline call of a function by itself, directly or through the
\* other function of the module
RecursiveForced ==
  \E f \in FuncNames :
    \/ CallsForced(f, f)
    \/ \E g \in FuncNames \ {f} : CallsForced(f, g) /\ CallsForced(g, f)

\* C29: the pass comes to its end on every module, and on a module in which
\* a force-inline function calls itself, directly or through another
\* force-inline function, it ends with an error emitted on a call that could
\* not be inlined and with the pass failure signalled.
C29_TerminatesAndReports ==
  /\ <>(inlPc = "done")
  /\ RecursiveForced => <>(inlPc = "done" /\ passFailed /\ diags # {})

\* the pattern has handed a call of a function that stands in that function's
\* own body to mlir::inlineCall, which is still copying
C29_SelfInlineDoesNotReturn ==
  /\ inlPc = "inlineCall"
  /\ \E f \in FuncNames : CallsForced(f, f)
  /\ ~passFailed /\ diags = {}

\* the pass ends, with the recursion reported, unless control stays in
\* mlir::inlineCall
EndsUnlessInlineCallHangs ==
  /\ <>(inlPc \in {"done", "inlineCall"})
  /\ RecursiveForced =>
       <>(\/ inlPc = "done" /\ passFailed /\ diags # {}
          \/ inlPc = "inlineCall")

(***************************************************************************)
(* Properties of canConvert / doConvert                                    *)
(***************************************************************************)
\* C30: for every pair of a source and a destination type among the integer,
\* float (f16, f32, f64), index and float-complex types, doConvert returns a
\* value of exactly the destination type when canConvert is true, null when
\* it is false, and the input value itself when the two types are equal.
C30_ConvertMatchesCanConvert ==
  castOut.done =>
    /\ castOut.can => castOut.value.type = castIn.dstType
    /\ ~castOut.can => castOut.value = NullValue
    /\ castIn.val.type = castIn.dstType => castOut.value = castIn.val

\* canConvert said yes for f16 to a 1-bit integer and doConvert ended in
\* llvm_unreachable instead of returning a value
C30_HalfToBoolAborts ==
  /\ castOut.done
  /\ castIn.val.type = FloatType(16)
  /\ isInt(castIn.dstType) /\ castIn.dstType.width = 1
  /\ castOut.can
  /\ castOut.value = AbortValue

\* away from f16 to a 1-bit integer doConvert and canConvert agree
ConvertMatchesUnlessHalfToBool ==
  (castOut.done /\ ~reachesUnreachable(castIn.val.type, castIn.dstType)) =>
    /\ castOut.can => castOut.value.type = castIn.dstType
    /\ ~castOut.can => castOut.value = NullValue
    /\ castIn.val.type = castIn.dstType => castOut.value = castIn.val

====
